---------------------------- MODULE Spec2Model ----------------------------
(***************************************************************************)
(* Model of the structure-extraction engine of txt-to-epub                 *)
(* (src/tasks/txt-to-epub-core/parser.py).                                 *)
(*                                                                         *)
(* A Python str is a sequence of characters; a character is a one-token    *)
(* string.  ASCII characters are themselves (" ", "\n", "x", "C", ...).    *)
(* A CJK character is written as an ASCII token named after its reading:   *)
(*   di = U+7B2C, zhang = U+7AE0, juan = U+5377, jie = U+8282,             *)
(*   yi = U+4E00, er = U+4E8C, zhong = U+4E2D, zai = U+5728, ...           *)
(* Offsets are Python offsets (0-based, end-exclusive): Slice(s, a, b) is  *)
(* s[a:b] and At(s, p) is s[p].                                            *)
(***************************************************************************)
EXTENDS Integers, Sequences, FiniteSets, TLC

VARIABLES
    pc,         \* position of the caller: which call has been made
    content,    \* the text handed to the function under study
    language,   \* the language tag handed to the function under study
    config,     \* ParserConfig handed to parse_hierarchical_content
    volumes,    \* value returned by parse_hierarchical_content
    chapter_list, \* value returned by parse_chapters_from_content
    cleaned,    \* value returned by remove_table_of_contents(content)
    cleaned2,   \* value returned by remove_table_of_contents(cleaned)
    chapters,   \* chapter list handed to validate_and_merge_chapters
    min_length, \* threshold handed to validate_and_merge_chapters
    merged,     \* value returned by validate_and_merge_chapters
    candidates,       \* all_matches = list(chapter_pattern.finditer(content))
    verdicts,         \* is_valid_chapter_title of each entry of candidates
    original_content, \* the text handed to validate_conversion_integrity
    original_stats,   \* WordCountValidator.original_stats
    converted_stats,  \* WordCountValidator.converted_stats
    audit,            \* what validate_conversion_integrity returned or raised
    file_text,        \* the text of the file txt_to_epub is given
    epub_file,        \* what txt_to_epub has written to the output path
    progress,         \* the values passed to context.report_progress, in order
    result            \* what txt_to_epub returned or raised

validationVars == <<candidates, verdicts>>
auditVars == <<original_content, original_stats, converted_stats, audit>>
runVars == <<file_text, epub_file, progress, result>>

vars == <<pc, content, language, config, volumes, chapter_list, cleaned, cleaned2,
          chapters, min_length, merged, validationVars, auditVars, runVars>>

\* no candidate heading has been validated
ValidationIdle == candidates = <<>> /\ verdicts = <<>>

\* WordCountValidator.__init__: both statistics are empty dicts; nothing audited
AuditIdle ==
    /\ original_content = <<>>
    /\ original_stats = <<>>
    /\ converted_stats = <<>>
    /\ audit = <<>>

\* txt_to_epub has not been called
RunIdle ==
    /\ file_text = <<>>
    /\ epub_file = <<>>
    /\ progress = <<>>
    /\ result = <<>>

-----------------------------------------------------------------------------
(* Python str primitives *)

Min(a, b) == IF a < b THEN a ELSE b
Max(a, b) == IF a > b THEN a ELSE b

\* Python's None
None == <<"None">>

\* name = value; F(name): a local variable of the code, assigned once
Bind(value, F(_)) == F(value)
Bind2(value1, value2, F(_, _)) == F(value1, value2)
Bind3(value1, value2, value3, F(_, _, _)) == F(value1, value2, value3)

\* characters str.strip() and the regex class \s treat as whitespace
Whitespace == {" ", "\n", "\t", "\r"}
IsSpace(c) == c \in Whitespace

\* s[p], or a token that is no character when p is outside the string
At(s, p) == IF p >= 0 /\ p < Len(s) THEN s[p + 1] ELSE "EOF"

\* s[a:b] for a, b >= 0
Slice(s, a, b) == IF a >= Min(b, Len(s)) THEN <<>> ELSE SubSeq(s, a + 1, Min(b, Len(s)))

\* s[-n:]
Tail_n(s, n) == Slice(s, Max(0, Len(s) - n), Len(s))

\* s.strip(chars)
StripChars(s, chars) ==
    IF \A i \in 1..Len(s) : s[i] \in chars THEN <<>>
    ELSE LET a == CHOOSE i \in 1..Len(s) :
                    s[i] \notin chars /\ \A j \in 1..(i - 1) : s[j] \in chars
             b == CHOOSE i \in 1..Len(s) :
                    s[i] \notin chars /\ \A j \in (i + 1)..Len(s) : s[j] \in chars
         IN SubSeq(s, a, b)

\* s.strip()
Strip(s) == StripChars(s, Whitespace)

\* s.strip('\n\r')
StripNewlines(s) == StripChars(s, {"\n", "\r"})

\* first offset q >= p that is the end of s or holds a non-whitespace character
SkipWs(s, p) ==
    CHOOSE q \in p..Len(s) :
        (q = Len(s) \/ ~IsSpace(At(s, q))) /\ \A j \in p..(q - 1) : IsSpace(At(s, j))

\* first offset q >= p that is the end of s or holds a newline: where [^\n]* stops
LineEnd(s, p) ==
    CHOOSE q \in p..Len(s) :
        (q = Len(s) \/ At(s, q) = "\n") /\ \A j \in p..(q - 1) : At(s, j) # "\n"

\* s starts with the characters of w at offset p
StartsWith(s, p, w) == p + Len(w) <= Len(s) /\ \A i \in 1..Len(w) : s[p + i] = w[i]

UpperLetters == <<"A", "B", "C", "D", "E", "F", "G", "H", "I", "J", "K", "L", "M",
                  "N", "O", "P", "Q", "R", "S", "T", "U", "V", "W", "X", "Y", "Z">>
LowerLetters == <<"a", "b", "c", "d", "e", "f", "g", "h", "i", "j", "k", "l", "m",
                  "n", "o", "p", "q", "r", "s", "t", "u", "v", "w", "x", "y", "z">>

UpperSet == {UpperLetters[i] : i \in 1..26}
LowerSet == {LowerLetters[i] : i \in 1..26}
LowerOf == [c \in UpperSet |-> LowerLetters[CHOOSE i \in 1..26 : UpperLetters[i] = c]]

\* c.lower()
LowerChar(c) == IF c \in UpperSet THEN LowerOf[c] ELSE c

\* s.lower()
Lower(s) == [i \in 1..Len(s) |-> LowerChar(s[i])]

\* content.split('\n')
RECURSIVE SplitLines(_)
SplitLines(s) ==
    LET e == LineEnd(s, 0)
    IN IF e = Len(s) THEN <<s>>
       ELSE <<Slice(s, 0, e)>> \o SplitLines(Slice(s, e + 1, Len(s)))

\* '\n'.join(lines)
RECURSIVE JoinLines(_)
JoinLines(ls) ==
    IF Len(ls) = 0 THEN <<>>
    ELSE IF Len(ls) = 1 THEN ls[1]
    ELSE ls[1] \o <<"\n">> \o JoinLines(Tail(ls))


-----------------------------------------------------------------------------
(* ChinesePatterns: the pattern catalog for Chinese books *)

\* [一二三四五六七八九十百千万壹贰叁肆伍陆柒捌玖拾佰仟萬]
CnNumerals == {"yi", "er", "san", "si", "wu", "liu", "qi", "ba", "jiu", "shi",
               "bai", "qian_k", "wan", "F_yi", "F_er", "F_san", "F_si", "F_wu",
               "F_liu", "F_qi", "F_ba", "F_jiu", "F_shi", "F_bai", "F_qian", "F_wan"}

\* \d
Digits == {"0", "1", "2", "3", "4", "5", "6", "7", "8", "9"}

\* ChinesePatterns.TOC_KEYWORDS = ["目录"]
CnTocKeywords == {<<"mu", "lu">>}

\* ChinesePatterns.PREFACE_KEYWORDS = ["前言", "序", "序言"]
CnPrefaceKeywords == {<<"qian", "yan">>, <<"xu">>, <<"xu", "yan">>}

\* (?:番外|番外篇|外传|特别篇|插话|后记|尾声|终章|楔子|序章)
CnSpecialChapters == {<<"fan", "wai">>, <<"fan", "wai", "pian">>, <<"wai", "zhuan">>,
                      <<"te", "bie", "pian">>, <<"cha", "hua">>, <<"hou", "ji">>,
                      <<"wei", "sheng">>, <<"zhong_end", "zhang">>, <<"xie", "zi">>,
                      <<"xu", "zhang">>}

\* end of a run of characters of class cls that starts at offset p
RunEnd(s, p, cls) ==
    CHOOSE q \in p..Len(s) :
        (q = Len(s) \/ At(s, q) \notin cls) /\ \A j \in p..(q - 1) : At(s, j) \in cls

\* 第([一二...]+|\d{1,3})<marker> matched at offset a: the offset after the
\* marker, or -1.  The numeral run is greedy and the marker follows it.
CnNumbered(s, a, markers) ==
    IF At(s, a) # "di" THEN -1
    ELSE Bind2(RunEnd(s, a + 1, CnNumerals), RunEnd(s, a + 1, Digits), LAMBDA n, d :
            IF n > a + 1 /\ At(s, n) \in markers THEN n + 1
            ELSE IF d > a + 1 /\ d <= a + 4 /\ At(s, d) \in markers THEN d + 1
            ELSE -1)

\* \s*(?=\n|$) matched greedily at offset e1 (a line end): the offset where
\* the match ends.  \s* backs off to the last newline of the whitespace run
\* unless the run reaches the end of the text.
TailEnd(s, e1) ==
    Bind(SkipWs(s, e1), LAMBDA f :
        IF f = Len(s) THEN f
        ELSE IF \E g \in e1..(f - 1) : At(s, g) = "\n"
             THEN CHOOSE g \in e1..(f - 1) :
                     At(s, g) = "\n" /\ \A h \in (g + 1)..(f - 1) : At(s, h) # "\n"
             ELSE -1)

\* offset q holds a character that [^\n] matches
NotNewline(s, q) == q < Len(s) /\ At(s, q) # "\n"

\* \s+[^\n]+ matched at offset z: offset where [^\n]+ ends, or -1.  \s+ is
\* greedy and gives characters back until [^\n]+ finds a non-newline.
WsThenText(s, z) ==
    Bind(SkipWs(s, z), LAMBDA c :
        IF \E q \in (z + 1)..c : NotNewline(s, q)
        THEN LineEnd(s, CHOOSE q \in (z + 1)..c :
                           NotNewline(s, q) /\ \A r \in (q + 1)..c : ~NotNewline(s, r))
        ELSE -1)

\* \s+[^\n]* matched at offset z: offset where [^\n]* ends, or -1
WsThenLine(s, z) ==
    Bind(SkipWs(s, z), LAMBDA c : IF c > z THEN LineEnd(s, c) ELSE -1)

\* the (?:^|\n) prefix (re.MULTILINE) can match at offset p
AtLineStartOrNewline(s, p) == p = 0 \/ At(s, p - 1) = "\n" \/ At(s, p) = "\n"

\* offset where group(1) starts for a match at p: ^ is tried before \n
Group1Start(s, p) == IF p = 0 \/ At(s, p - 1) = "\n" THEN p ELSE p + 1

\* ChinesePatterns.CHAPTER_PATTERN attempted at offset p: the match end or -1
CnChapterEnd(s, p) ==
    IF ~AtLineStartOrNewline(s, p) THEN -1
    ELSE Bind(SkipWs(s, p), LAMBDA a :
         \* z1: 第X章 ends; ks: the special keywords that match at a
         Bind2(CnNumbered(s, a, {"zhang"}),
               {k \in CnSpecialChapters :
                   StartsWith(s, a, k) /\ WsThenLine(s, a + Len(k)) # -1},
               LAMBDA z1, ks :
         \* e1, e2: where the title of either alternative ends
         Bind2(IF z1 # -1 THEN WsThenText(s, z1) ELSE -1,
               IF ks # {} THEN WsThenLine(s, a + Len(CHOOSE k \in ks : TRUE)) ELSE -1,
               LAMBDA e1, e2 :
         Bind(IF e1 # -1 THEN e1 ELSE e2, LAMBDA e :
              IF e # -1 THEN TailEnd(s, e) ELSE -1))))

\* ChinesePatterns.VOLUME_PATTERN attempted at offset p: the match end or -1
CnVolumeEnd(s, p) ==
    Bind(CnNumbered(s, p, {"juan", "bu", "pian"}), LAMBDA z :
         IF z = -1 THEN -1 ELSE WsThenLine(s, z))

\* ChinesePatterns.SECTION_PATTERN attempted at offset p: the match end or -1
CnSectionEnd(s, p) ==
    Bind(CnNumbered(s, p, {"jie"}), LAMBDA z :
         IF z = -1 THEN -1 ELSE WsThenLine(s, z))


-----------------------------------------------------------------------------
(* EnglishPatterns: the pattern catalog for English books.  The patterns    *)
(* are compiled with re.IGNORECASE: keywords and numerals are compared     *)
(* with the lower-cased text.                                              *)

\* One|Two|...|Twenty
EnNumberWords == {<<"o", "n", "e">>,
                 <<"t", "w", "o">>,
                 <<"t", "h", "r", "e", "e">>,
                 <<"f", "o", "u", "r">>,
                 <<"f", "i", "v", "e">>,
                 <<"s", "i", "x">>,
                 <<"s", "e", "v", "e", "n">>,
                 <<"e", "i", "g", "h", "t">>,
                 <<"n", "i", "n", "e">>,
                 <<"t", "e", "n">>,
                 <<"e", "l", "e", "v", "e", "n">>,
                 <<"t", "w", "e", "l", "v", "e">>,
                 <<"t", "h", "i", "r", "t", "e", "e", "n">>,
                 <<"f", "o", "u", "r", "t", "e", "e", "n">>,
                 <<"f", "i", "f", "t", "e", "e", "n">>,
                 <<"s", "i", "x", "t", "e", "e", "n">>,
                 <<"s", "e", "v", "e", "n", "t", "e", "e", "n">>,
                 <<"e", "i", "g", "h", "t", "e", "e", "n">>,
                 <<"n", "i", "n", "e", "t", "e", "e", "n">>,
                 <<"t", "w", "e", "n", "t", "y">>}

\* Thirty|Forty|Fifty: chapters only
EnTensWords == {<<"t", "h", "i", "r", "t", "y">>,
               <<"f", "o", "r", "t", "y">>,
               <<"f", "i", "f", "t", "y">>}

\* I{1,3}V?|VI{0,3}|IX|X{1,2}
EnRomanVolume == {<<"i">>,
                 <<"i", "i">>,
                 <<"i", "i", "i">>,
                 <<"i", "v">>,
                 <<"i", "i", "v">>,
                 <<"i", "i", "i", "v">>,
                 <<"v">>,
                 <<"v", "i">>,
                 <<"v", "i", "i">>,
                 <<"v", "i", "i", "i">>,
                 <<"i", "x">>,
                 <<"x">>,
                 <<"x", "x">>}

\* I{1,3}V?|VI{0,3}|IX|X{1,2}L?
EnRomanChapter == EnRomanVolume \cup {<<"x", "l">>,
                 <<"x", "x", "l">>}

\* (?:Part|Book|Volume)
EnVolumeWords == {<<"p", "a", "r", "t">>,
                 <<"b", "o", "o", "k">>,
                 <<"v", "o", "l", "u", "m", "e">>}
\* (?:Chapter|Ch\.?|Chap\.?)
EnChapterWords == {<<"c", "h", "a", "p", "t", "e", "r">>,
                  <<"c", "h">>,
                  <<"c", "h", ".">>,
                  <<"c", "h", "a", "p">>,
                  <<"c", "h", "a", "p", ".">>}
\* (?:Section|Sect\.?)
EnSectionWords == {<<"s", "e", "c", "t", "i", "o", "n">>,
                  <<"s", "e", "c", "t">>,
                  <<"s", "e", "c", "t", ".">>}

\* \d{1,2} matched at offset b ends at n
TwoDigits(s, b, n) == n - b \in 1..2 /\ \A j \in b..(n - 1) : At(s, j) \in Digits

\* \d{1,2}(?:\.\d+)? matched at offset b ends at n
SectionNumber(s, b, n) ==
    \/ TwoDigits(s, b, n)
    \/ \E d \in b..n : /\ TwoDigits(s, b, d)
                       /\ At(s, d) = "."
                       /\ n > d + 1
                       /\ \A j \in (d + 1)..(n - 1) : At(s, j) \in Digits

\* the numeral of an English heading of kind pat, matched at offset b of the
\* lower-cased text, ends at n
EnNumeral(pat, low, b, n) ==
    Bind(Slice(low, b, n), LAMBDA w :
        CASE pat = "en_volume"  -> w \in EnRomanVolume \/ TwoDigits(low, b, n)
                                   \/ w \in EnNumberWords
          [] pat = "en_chapter" -> w \in EnRomanChapter \/ TwoDigits(low, b, n)
                                   \/ w \in EnNumberWords \/ w \in EnTensWords
          [] pat = "en_section" -> SectionNumber(low, b, n) \/ w \in EnNumberWords)

EnHeadWords(pat) ==
    CASE pat = "en_volume"  -> EnVolumeWords
      [] pat = "en_chapter" -> EnChapterWords
      [] pat = "en_section" -> EnSectionWords

\* :\s*[^\n]+ matched at offset n: offset where [^\n]+ ends, or -1.  \s* is
\* greedy and gives characters back until [^\n]+ finds a non-newline.
ColonText(s, n) ==
    Bind(SkipWs(s, n + 1), LAMBDA c :
        IF At(s, n) = ":" /\ \E q \in (n + 1)..c : NotNewline(s, q)
        THEN LineEnd(s, CHOOSE q \in (n + 1)..c :
                           NotNewline(s, q) /\ \A r \in (q + 1)..c : ~NotNewline(s, r))
        ELSE -1)

\* (?::\s*[^\n]+)?\s*(?=\n|$) matched at offset n: the match end or -1
EnRest(s, n) ==
    Bind(ColonText(s, n), LAMBDA c : TailEnd(s, IF c # -1 THEN c ELSE n))

\* EnglishPatterns.VOLUME_PATTERN, CHAPTER_PATTERN or SECTION_PATTERN
\* attempted at offset p: the match end or -1
EnHeadingEnd(pat, s, p) ==
    IF ~AtLineStartOrNewline(s, p) THEN -1
    ELSE Bind(SkipWs(s, p), LAMBDA a :
         IF \A k \in EnHeadWords(pat) : LowerChar(At(s, a)) # k[1] THEN -1
         ELSE Bind(Lower(s), LAMBDA low :
              \* the offsets n where keyword, \s+ and numeral end and the rest matches
              Bind({n \in (a + 1)..Len(s) :
                      \E k \in EnHeadWords(pat) :
                         /\ StartsWith(low, a, k)
                         /\ Bind(SkipWs(s, a + Len(k)), LAMBDA b :
                                 b > a + Len(k) /\ n > b /\ EnNumeral(pat, low, b, n))
                         /\ EnRest(s, n) # -1},
                   LAMBDA ends :
                   IF ends = {} THEN -1 ELSE EnRest(s, CHOOSE n \in ends : TRUE))))

\* EnglishPatterns.NUMBERED_SECTION_PATTERN attempted at offset p
EnNumberedEnd(s, p) ==
    IF ~AtLineStartOrNewline(s, p) THEN -1
    ELSE Bind(SkipWs(s, p), LAMBDA a :
         Bind(RunEnd(s, a, Digits), LAMBDA d1 :
         Bind(RunEnd(s, d1 + 1, Digits), LAMBDA d2 :
         Bind(IF d1 > a /\ At(s, d1) = "." /\ d2 > d1 + 1 THEN WsThenText(s, d2) ELSE -1,
              LAMBDA e1 :
              IF e1 # -1 THEN TailEnd(s, e1) ELSE -1))))

-----------------------------------------------------------------------------
(* re: pattern.finditer and pattern.search over the catalog *)

\* the patterns that begin with (?:^|\n) and capture the rest as group(1)
Anchored == {"cn_chapter", "en_volume", "en_chapter", "en_section", "en_numbered"}

\* pattern attempted at offset p of s: the offset where the match ends, or -1
MatchEnd(pat, s, p) ==
    CASE pat = "cn_chapter" -> CnChapterEnd(s, p)
      [] pat = "cn_volume"  -> CnVolumeEnd(s, p)
      [] pat = "cn_section" -> CnSectionEnd(s, p)
      [] pat \in {"en_volume", "en_chapter", "en_section"} -> EnHeadingEnd(pat, s, p)
      [] pat = "en_numbered" -> EnNumberedEnd(s, p)

\* the match object for a match of pat from offset p to offset e: start(),
\* end(), group(1), group(0)
MatchObject(pat, s, p, e) ==
    [start  |-> p,
     end    |-> e,
     group1 |-> Slice(s, IF pat \in Anchored THEN Group1Start(s, p) ELSE p, e),
     group0 |-> Slice(s, p, e)]

\* list(pattern.finditer(s)) from offset pos on, ends[p] being the end of the
\* match attempted at p: leftmost match first, the scan resumes where the
\* match ended
RECURSIVE FindIterFrom(_, _, _, _)
FindIterFrom(pat, s, ends, pos) ==
    Bind({p \in pos..Len(s) : ends[p] # -1}, LAMBDA hits :
        IF hits = {} THEN <<>>
        ELSE Bind(CHOOSE p \in hits : \A q \in hits : p <= q, LAMBDA p :
                  <<MatchObject(pat, s, p, ends[p])>>
                  \o FindIterFrom(pat, s, ends, IF ends[p] > p THEN ends[p] ELSE p + 1)))

finditer(pat, s) == FindIterFrom(pat, s, [p \in 0..Len(s) |-> MatchEnd(pat, s, p)], 0)

\* pattern.search(s) is not None
search(pat, s) == \E p \in 0..Len(s) : MatchEnd(pat, s, p) # -1


-----------------------------------------------------------------------------
(* is_valid_chapter_title *)

\* characters outside the regex class \w: whitespace and punctuation
\* (cn_comma U+FF0C, cn_dun U+3001, cn_semi U+FF1B, cn_period U+3002)
NonWord == Whitespace \cup {".", ",", ":", ";", "-", "cn_comma", "cn_dun", "cn_semi",
                            "cn_period", "EOF"}

\* [在如见到自从正前后于从到至]
CnInlinePrefix == {"zai", "ru", "jian", "dao", "zi_from", "cong", "zheng", "qian",
                   "hou", "yu", "zhi_to"}

\* [，,、；;]
CnInlinePunct == {"cn_comma", ",", "cn_dun", "cn_semi", ";"}

\* [结结束时中里]
CnContinuation == {"jie_end", "shu", "shi_time", "zhong", "li"}

\* re.search(r'[<cls>]第.{0,5}章', ctx) is not None
CnReferenceIn(cls, ctx) ==
    \E i \in 0..(Len(ctx) - 1) :
        /\ At(ctx, i) \in cls
        /\ At(ctx, i + 1) = "di"
        /\ \E k \in 0..5 :
              /\ At(ctx, i + 2 + k) = "zhang"
              /\ \A j \in (i + 2)..(i + 1 + k) : At(ctx, j) # "\n"

\* (?:in|see|from|at|to|of|for)
EnInlineWords == {<<"i", "n">>, <<"s", "e", "e">>, <<"f", "r", "o", "m">>, <<"a", "t">>,
                  <<"t", "o">>, <<"o", "f">>, <<"f", "o", "r">>}

\* re.search(r'(?:in|see|from|at|to|of|for)\s+Chapter\s+\w+', ctx, re.IGNORECASE)
EnReferenceIn(ctx) ==
    Bind(Lower(ctx), LAMBDA c :
        \E i \in 0..(Len(c) - 1) : \E w \in EnInlineWords :
            /\ StartsWith(c, i, w)
            /\ Bind(SkipWs(c, i + Len(w)), LAMBDA a :
                  /\ a > i + Len(w)
                  /\ StartsWith(c, a, <<"c", "h", "a", "p", "t", "e", "r">>)
                  /\ Bind(SkipWs(c, a + 7), LAMBDA b :
                          b > a + 7 /\ At(c, b) \notin NonWord)))

\* (?:ends?|of|in|at)
EnContinuationWords == {<<"e", "n", "d">>, <<"e", "n", "d", "s">>, <<"o", "f">>,
                        <<"i", "n">>, <<"a", "t">>}

\* re.match(r'^\s*(?:ends?|of|in|at)\s', ctx, re.IGNORECASE)
EnContinuationAt(ctx) ==
    Bind(Lower(ctx), LAMBDA c :
    Bind(SkipWs(c, 0), LAMBDA a :
        \E w \in EnContinuationWords :
            StartsWith(c, a, w) /\ IsSpace(At(c, a + Len(w)))))

MaxTitleLen == 100
ContextWindow == 50

\* text.rfind('\n', 0, match_start) + 1
LineStart(text, match_start) ==
    IF \E i \in 0..(match_start - 1) : At(text, i) = "\n"
    THEN 1 + CHOOSE i \in 0..(match_start - 1) :
               At(text, i) = "\n" /\ \A j \in (i + 1)..(match_start - 1) : At(text, j) # "\n"
    ELSE 0

is_valid_chapter_title(match, text, lang) ==
    Bind3(Strip(match.group0), match.start, match.end,
          LAMBDA match_text, match_start, match_end :
    Bind2(Slice(text, Max(0, match_start - ContextWindow), match_start),
          Slice(text, match_end, Min(Len(text), match_end + ContextWindow)),
          LAMBDA context_before, context_after :
       \* 1. title too long
       IF Len(match_text) > MaxTitleLen THEN FALSE
       \* 2. context before the match
       ELSE IF lang = "chinese"
               /\ CnReferenceIn(CnInlinePrefix,
                                Tail_n(context_before, 20) \o Slice(match_text, 0, 10))
       THEN FALSE
       ELSE IF lang = "chinese"
               /\ CnReferenceIn(CnInlinePunct,
                                Tail_n(context_before, 10) \o Slice(match_text, 0, 10))
       THEN FALSE
       ELSE IF lang # "chinese"
               /\ EnReferenceIn(Tail_n(context_before, 30) \o Slice(match_text, 0, 20))
       THEN FALSE
       \* 3. context after the match
       ELSE IF lang = "chinese" /\ At(context_after, SkipWs(context_after, 0)) \in CnContinuation
       THEN FALSE
       ELSE IF lang = "chinese" /\ At(context_after, SkipWs(context_after, 0)) \in {"cn_comma", ","}
       THEN FALSE
       ELSE IF lang # "chinese" /\ EnContinuationAt(context_after)
       THEN FALSE
       \* 4. the match must begin its line
       ELSE Bind(LineStart(text, match_start), LAMBDA line_start :
            Bind(Slice(text, line_start, match_start), LAMBDA text_before_match :
                 IF Strip(text_before_match) # <<>> THEN FALSE
                 ELSE TRUE))))


-----------------------------------------------------------------------------
(* string literals of parser.py *)

\* "Empty Content"
S_EmptyContent == <<"E", "m", "p", "t", "y", " ", "C", "o", "n", "t", "e", "n", "t">>
\* "This document is empty or cannot be parsed."
S_EmptyDocument == <<"T", "h", "i", "s", " ", "d", "o", "c", "u", "m", "e", "n", "t", " ", "i", "s", " ", "e", "m", "p", "t", "y", " ", "o", "r", " ", "c", "a", "n", "n", "o", "t", " ", "b", "e", " ", "p", "a", "r", "s", "e", "d", ".">>
\* "正文" / "Content"
S_BodyCn == <<"zheng", "wen">>
S_BodyEn == <<"C", "o", "n", "t", "e", "n", "t">>
\* "序言" / "Preface": front matter before the first volume
S_VolumePrefaceCn == <<"xu", "yan">>
S_PrefaceEn == <<"P", "r", "e", "f", "a", "c", "e">>
\* "前言": front matter before the first chapter, and flushed short chapters
S_PrefaceCn == <<"qian", "yan">>
\* "章节序言" / "Chapter Preface"
S_ChapterPrefaceCn == <<"zhang", "jie", "xu", "yan">>
S_ChapterPrefaceEn == <<"C", "h", "a", "p", "t", "e", "r", " ", "P", "r", "e", "f", "a", "c", "e">>
\* "此章节内容为空。" / "This chapter is empty."
S_EmptyChapterCn == <<"ci", "zhang", "jie", "nei", "rong", "wei_be", "kong", "cn_period">>
S_EmptyChapterEn == <<"T", "h", "i", "s", " ", "c", "h", "a", "p", "t", "e", "r", " ", "i", "s", " ", "e", "m", "p", "t", "y", ".">>
\* "此节内容为空。" / "This section is empty."
S_EmptySectionCn == <<"ci", "jie", "nei", "rong", "wei_be", "kong", "cn_period">>
S_EmptySectionEn == <<"T", "h", "i", "s", " ", "s", "e", "c", "t", "i", "o", "n", " ", "i", "s", " ", "e", "m", "p", "t", "y", ".">>
\* "未知内容" / "Unknown Content"
S_UnknownCn == <<"wei_not", "zhi", "nei", "rong">>
S_UnknownEn == <<"U", "n", "k", "n", "o", "w", "n", " ", "C", "o", "n", "t", "e", "n", "t">>
\* "无法解析文档结构，请检查文档格式。"
S_UnparsedCn == <<"wu_no", "fa", "jie_solve", "xi", "wen", "dang", "jie_end", "gou",
                  "cn_comma", "qing", "jian_check", "cha_check", "wen", "dang", "ge",
                  "shi_form", "cn_period">>
\* "Unable to parse document structure. Please check document format."
S_UnparsedEn == <<"U", "n", "a", "b", "l", "e", " ", "t", "o", " ", "p", "a", "r", "s", "e", " ", "d", "o", "c", "u", "m", "e", "n", "t", " ", "s", "t", "r", "u", "c", "t", "u", "r", "e", ".", " ", "P", "l", "e", "a", "s", "e", " ", "c", "h", "e", "c", "k", " ", "d", "o", "c", "u", "m", "e", "n", "t", " ", "f", "o", "r", "m", "a", "t", ".">>

Section(t, c) == [title |-> t, content |-> c]
Chapter(t, c, ss) == [title |-> t, content |-> c, sections |-> ss]
Volume(t, cs) == [title |-> t, chapters |-> cs]

-----------------------------------------------------------------------------
(* parse_sections_from_content *)

\* the section loop with the seen_titles test left out: every heading makes a section
RECURSIVE SectionLoopKeepDuplicates(_, _, _, _, _)
SectionLoopKeepDuplicates(text, lang, ms, i, seen) ==
    IF i > Len(ms) THEN <<>>
    ELSE Bind3(Strip(ms[i].group1), ms[i].end,
               IF i + 1 <= Len(ms) THEN ms[i + 1].start ELSE Len(text),
               LAMBDA section_title, section_start, section_end :
         Bind(StripNewlines(Slice(text, section_start, section_end)),
              LAMBDA section_content :
              <<Section(section_title,
                        IF Strip(section_content) = <<>>
                        THEN (IF lang = "chinese" THEN S_EmptySectionCn
                              ELSE S_EmptySectionEn)
                        ELSE section_content)>>)
         \o SectionLoopKeepDuplicates(text, lang, ms, i + 1, seen))

\* the section loop from match i on, seen being seen_titles
RECURSIVE SectionLoop(_, _, _, _, _)
SectionLoop(text, lang, ms, i, seen) ==
    IF i > Len(ms) THEN <<>>
    ELSE Bind3(Strip(ms[i].group1), ms[i].end,
               IF i + 1 <= Len(ms) THEN ms[i + 1].start ELSE Len(text),
               LAMBDA section_title, section_start, section_end :
         IF section_title # <<>> /\ section_title \notin seen
         THEN Bind(StripNewlines(Slice(text, section_start, section_end)),
                   LAMBDA section_content :
                   <<Section(section_title,
                             IF Strip(section_content) = <<>>
                             THEN (IF lang = "chinese" THEN S_EmptySectionCn
                                   ELSE S_EmptySectionEn)
                             ELSE section_content)>>)
              \o SectionLoop(text, lang, ms, i + 1, seen \cup {section_title})
         ELSE SectionLoop(text, lang, ms, i + 1, seen))

\* the section pattern families of a language, in the order they are tried
\* the section pattern families with the dotted-numeric family tried first
SectionPatternsNumberedFirst(lang) ==
    IF lang = "english" THEN <<"en_numbered", "en_section">> ELSE <<"cn_section">>

SectionPatterns(lang) ==
    IF lang = "english" THEN <<"en_section", "en_numbered">> ELSE <<"cn_section">>

parse_sections_from_content(text, lang) ==
    IF Strip(text) = <<>> THEN <<>>
    ELSE Bind(SectionPatterns(lang), LAMBDA pats :
         \* the first pattern that is found in the text is the one used
         Bind({k \in 1..Len(pats) : search(pats[k], text)}, LAMBDA hit :
         IF hit = {} THEN <<>>
         ELSE Bind(finditer(pats[CHOOSE k \in hit : \A j \in hit : k <= j], text),
                   LAMBDA section_matches :
              Bind(section_matches[1].start, LAMBDA first_section_start :
              Bind(Strip(Slice(text, 0, first_section_start)), LAMBDA preface_content :
                   (IF first_section_start > 0 /\ preface_content # <<>>
                    THEN <<Section(IF lang = "chinese" THEN S_ChapterPrefaceCn
                                   ELSE S_ChapterPrefaceEn,
                                   preface_content)>>
                    ELSE <<>>)
                   \o SectionLoop(text, lang, section_matches, 1, {}))))))

-----------------------------------------------------------------------------
(* parse_chapters_from_content *)

\* [m for m in ms if keep(m)]
RECURSIVE FilterValid(_, _, _)
FilterValid(ms, text, lang) ==
    IF Len(ms) = 0 THEN <<>>
    ELSE (IF is_valid_chapter_title(ms[1], text, lang) THEN <<ms[1]>> ELSE <<>>)
         \o FilterValid(Tail(ms), text, lang)

\* the Chapter built for an accepted, first-seen heading
MakeChapter(chapter_title, chapter_content, lang) ==
    Bind(parse_sections_from_content(chapter_content, lang), LAMBDA sections :
        IF Len(sections) > 0 THEN Chapter(chapter_title, <<>>, sections)
        ELSE IF Strip(chapter_content) = <<>>
             THEN Chapter(chapter_title,
                          IF lang = "chinese" THEN S_EmptyChapterCn ELSE S_EmptyChapterEn,
                          <<>>)
             ELSE Chapter(chapter_title, chapter_content, <<>>))

\* the chapter loop with the seen_titles test left out: every heading makes a chapter
RECURSIVE ChapterLoopKeepDuplicates(_, _, _, _, _)
ChapterLoopKeepDuplicates(text, lang, ms, i, seen) ==
    IF i > Len(ms) THEN <<>>
    ELSE Bind3(Strip(ms[i].group1), ms[i].end,
               IF i + 1 <= Len(ms) THEN ms[i + 1].start ELSE Len(text),
               LAMBDA chapter_title, chapter_start, chapter_end :
         <<MakeChapter(chapter_title,
                       StripNewlines(Slice(text, chapter_start, chapter_end)), lang)>>
         \o ChapterLoopKeepDuplicates(text, lang, ms, i + 1, seen))

\* the chapter loop from match i on, seen being seen_titles
RECURSIVE ChapterLoop(_, _, _, _, _)
ChapterLoop(text, lang, ms, i, seen) ==
    IF i > Len(ms) THEN <<>>
    ELSE Bind3(Strip(ms[i].group1), ms[i].end,
               IF i + 1 <= Len(ms) THEN ms[i + 1].start ELSE Len(text),
               LAMBDA chapter_title, chapter_start, chapter_end :
         IF chapter_title # <<>> /\ chapter_title \notin seen
         THEN <<MakeChapter(chapter_title,
                            StripNewlines(Slice(text, chapter_start, chapter_end)), lang)>>
              \o ChapterLoop(text, lang, ms, i + 1, seen \cup {chapter_title})
         ELSE ChapterLoop(text, lang, ms, i + 1, seen))

ChapterPattern(lang) == IF lang = "english" THEN "en_chapter" ELSE "cn_chapter"

\* parse_chapters_from_content with the rejected candidates kept as boundaries
\* that make no chapter: the text from a rejected candidate to the next
\* candidate is cut out
parse_chapters_cutting_rejected(text, lang, cfg) ==
    IF Strip(text) = <<>> THEN <<>>
    ELSE Bind(finditer(ChapterPattern(lang), text), LAMBDA all_matches :
         Bind(IF cfg.enable_chapter_validation
              THEN FilterValid(all_matches, text, lang)
              ELSE all_matches,
              LAMBDA chapter_matches :
         IF Len(chapter_matches) = 0 THEN <<>>
         ELSE Bind2(Strip(Slice(text, 0, all_matches[1].start)),
                    IF lang = "chinese" THEN S_PrefaceCn ELSE S_PrefaceEn,
                    LAMBDA preface_content, preface_title :
                   (IF all_matches[1].start > 0 /\ preface_content # <<>>
                    THEN <<Chapter(preface_title, preface_content, <<>>)>>
                    ELSE <<>>)
                   \o ChapterLoop(text, lang, all_matches, 1,
                                  {Strip(all_matches[k].group1) :
                                       k \in {j \in 1..Len(all_matches) :
                                                  \A a \in 1..Len(chapter_matches) :
                                                      chapter_matches[a] # all_matches[j]}}))))

parse_chapters_from_content(text, lang, cfg) ==
    IF Strip(text) = <<>> THEN <<>>
    ELSE Bind(finditer(ChapterPattern(lang), text), LAMBDA all_matches :
         Bind(IF cfg.enable_chapter_validation
              THEN FilterValid(all_matches, text, lang)
              ELSE all_matches,
              LAMBDA chapter_matches :
         IF Len(chapter_matches) = 0 THEN <<>>
         ELSE Bind(chapter_matches[1].start, LAMBDA first_chapter_start :
              Bind2(Strip(Slice(text, 0, first_chapter_start)),
                    IF lang = "chinese" THEN S_PrefaceCn ELSE S_PrefaceEn,
                    LAMBDA preface_content, preface_title :
                   (IF first_chapter_start > 0 /\ preface_content # <<>>
                    THEN Bind(parse_sections_from_content(preface_content, lang),
                              LAMBDA sections :
                              IF Len(sections) > 0
                              THEN <<Chapter(preface_title, <<>>, sections)>>
                              ELSE <<Chapter(preface_title, preface_content, <<>>)>>)
                    ELSE <<>>)
                   \o ChapterLoop(text, lang, chapter_matches, 1, {})))))


-----------------------------------------------------------------------------
(* validate_and_merge_chapters *)

\* chapter.content followed by the content of every section
RECURSIVE SectionsContent(_)
SectionsContent(ss) == IF Len(ss) = 0 THEN <<>> ELSE ss[1].content \o SectionsContent(Tail(ss))

\* len(chapter.content.strip()): the length with the sections left out
content_length_without_sections(chapter) == Len(Strip(chapter.content))

\* len(total_content.strip())
content_length(chapter) == Len(Strip(chapter.content \o SectionsContent(chapter.sections)))

\* accumulated_title or ("前言" if language == 'chinese' else "Preface")
FlushTitle(accumulated_title, lang) ==
    IF accumulated_title # None /\ accumulated_title # <<>> THEN accumulated_title
    ELSE IF lang = "chinese" THEN S_PrefaceCn ELSE S_PrefaceEn

\* the accumulated short chapters as one chapter
Flush(accumulated_title, accumulated_content, lang) ==
    Chapter(FlushTitle(accumulated_title, lang), Strip(accumulated_content), <<>>)

\* a short chapter absorbed by the last valid chapter
Absorb(last_chapter, chapter) ==
    Chapter(last_chapter.title,
            IF last_chapter.content # <<>>
            THEN last_chapter.content \o <<"\n", "\n">> \o chapter.title \o <<"\n">>
                 \o chapter.content
            ELSE chapter.title \o <<"\n">> \o chapter.content,
            last_chapter.sections)

\* the loop over chapters from index i on
RECURSIVE MergeLoop(_, _, _, _, _, _, _)
MergeLoop(chs, lang, minlen, i, valid_chapters, accumulated_content, accumulated_title) ==
    IF i > Len(chs)
    THEN IF accumulated_content # <<>>
         THEN Append(valid_chapters, Flush(accumulated_title, accumulated_content, lang))
         ELSE valid_chapters
    ELSE LET chapter == chs[i]
         IN IF content_length(chapter) < minlen
            THEN IF Len(valid_chapters) = 0 /\ accumulated_content = <<>>
                 THEN MergeLoop(chs, lang, minlen, i + 1, valid_chapters,
                                chapter.title \o <<"\n", "\n">> \o chapter.content,
                                chapter.title)
                 ELSE IF Len(valid_chapters) > 0
                 THEN MergeLoop(chs, lang, minlen, i + 1,
                                [valid_chapters EXCEPT ![Len(valid_chapters)] =
                                    Absorb(valid_chapters[Len(valid_chapters)], chapter)],
                                accumulated_content, accumulated_title)
                 ELSE MergeLoop(chs, lang, minlen, i + 1, valid_chapters,
                                accumulated_content \o <<"\n", "\n">> \o chapter.title
                                    \o <<"\n">> \o chapter.content,
                                accumulated_title)
            ELSE IF accumulated_content # <<>>
                 THEN MergeLoop(chs, lang, minlen, i + 1,
                                Append(Append(valid_chapters,
                                              Flush(accumulated_title, accumulated_content, lang)),
                                       chapter),
                                <<>>, None)
                 ELSE MergeLoop(chs, lang, minlen, i + 1, Append(valid_chapters, chapter),
                                accumulated_content, accumulated_title)

\* the list returned as given: no chapter is judged too short
validate_without_merging(chs, lang, minlen) == chs

\* the comparison written as content_length <= min_length
validate_and_merge_at_or_below(chs, lang, minlen) ==
    IF Len(chs) = 0 THEN chs
    ELSE MergeLoop(chs, lang, minlen + 1, 1, <<>>, <<>>, None)

validate_and_merge_chapters(chs, lang, minlen) ==
    IF Len(chs) = 0 THEN chs
    ELSE MergeLoop(chs, lang, minlen, 1, <<>>, <<>>, None)

-----------------------------------------------------------------------------
(* detect_language *)

\* characters of the model alphabet that are ASCII; every other token stands
\* for a character in [一-鿿] or for CJK punctuation
Ascii == UpperSet \cup LowerSet \cup Digits \cup Whitespace \cup {".", ",", ":", ";", "-", "*"}
CjkPunct == {"cn_comma", "cn_dun", "cn_semi", "cn_period"}

\* [一-鿿]
IsCjk(c) == c \notin Ascii /\ c \notin CjkPunct
\* [a-zA-Z]
IsLatin(c) == c \in UpperSet \/ c \in LowerSet

\* s.count(w): non-overlapping occurrences, scanning left to right
RECURSIVE CountFrom(_, _, _)
CountFrom(s, w, p) ==
    LET occ == {q \in p..(Len(s) - Len(w)) : StartsWith(s, q, w)}
    IN IF occ = {} THEN 0
       ELSE 1 + CountFrom(s, w, Len(w) + CHOOSE q \in occ : \A r \in occ : q <= r)
Count(s, w) == CountFrom(s, w, 0)

RECURSIVE SumCounts(_, _)
SumCounts(s, ws) == IF Len(ws) = 0 THEN 0 ELSE Count(s, ws[1]) + SumCounts(s, Tail(ws))

\* ['第', '章', '节', '卷', '部', '篇', '序言', '前言', '目录']
chinese_keywords == <<<<"di">>, <<"zhang">>, <<"jie">>, <<"juan">>, <<"bu">>, <<"pian">>,
                      <<"xu", "yan">>, <<"qian", "yan">>, <<"mu", "lu">>>>

\* ['Chapter', 'Section', 'Part', 'Book', 'Volume', 'Contents', 'Preface',
\*  'Introduction'], lower-cased
english_keywords == <<<<"c", "h", "a", "p", "t", "e", "r">>, <<"s", "e", "c", "t", "i", "o", "n">>,
                      <<"p", "a", "r", "t">>, <<"b", "o", "o", "k">>,
                      <<"v", "o", "l", "u", "m", "e">>,
                      <<"c", "o", "n", "t", "e", "n", "t", "s">>,
                      <<"p", "r", "e", "f", "a", "c", "e">>,
                      <<"i", "n", "t", "r", "o", "d", "u", "c", "t", "i", "o", "n">>>>

\* the English keywords counted in content instead of content.lower()
detect_language_case_sensitive(text) ==
    IF Strip(text) = <<>> THEN "chinese"
    ELSE LET chinese_chars == Cardinality({i \in 1..Len(text) : IsCjk(text[i])})
             english_chars == Cardinality({i \in 1..Len(text) : IsLatin(text[i])})
             chinese_keyword_count == SumCounts(text, chinese_keywords)
             english_keyword_count == SumCounts(text, english_keywords)
         IN IF 2 * chinese_chars > english_chars
               \/ chinese_keyword_count > english_keyword_count
            THEN "chinese" ELSE "english"

detect_language(text) ==
    IF Strip(text) = <<>> THEN "chinese"
    ELSE LET chinese_chars == Cardinality({i \in 1..Len(text) : IsCjk(text[i])})
             english_chars == Cardinality({i \in 1..Len(text) : IsLatin(text[i])})
             chinese_keyword_count == SumCounts(text, chinese_keywords)
             english_keyword_count == SumCounts(Lower(text), english_keywords)
         IN \* chinese_chars > english_chars * 0.5
            IF 2 * chinese_chars > english_chars
               \/ chinese_keyword_count > english_keyword_count
            THEN "chinese" ELSE "english"


-----------------------------------------------------------------------------
(* remove_table_of_contents *)

\* EnglishPatterns.TOC_KEYWORDS = ["Contents", "Table of Contents", "TOC"]
EnTocKeywords == {<<"C", "o", "n", "t", "e", "n", "t", "s">>,
                  <<"T", "a", "b", "l", "e", " ", "o", "f", " ", "C", "o", "n", "t", "e", "n", "t", "s">>,
                  <<"T", "O", "C">>}

\* EnglishPatterns.PREFACE_KEYWORDS = ["Preface", "Foreword", "Introduction", "Prologue"]
EnPrefaceKeywords == {<<"P", "r", "e", "f", "a", "c", "e">>,
                      <<"F", "o", "r", "e", "w", "o", "r", "d">>,
                      <<"I", "n", "t", "r", "o", "d", "u", "c", "t", "i", "o", "n">>,
                      <<"P", "r", "o", "l", "o", "g", "u", "e">>}

toc_keywords(lang) == IF lang = "english" THEN EnTocKeywords ELSE CnTocKeywords
preface_keywords(lang) == IF lang = "english" THEN EnPrefaceKeywords ELSE CnPrefaceKeywords
\* chapter_patterns = [patterns.CHAPTER_PATTERN, patterns.VOLUME_PATTERN]
chapter_patterns(lang) ==
    IF lang = "english" THEN {"en_chapter", "en_volume"} ELSE {"cn_chapter", "cn_volume"}

TocLongNextLine == 30
TocLongLine == 50
TocLookahead == 5

\* stripped_line in toc_keywords or any(keyword.lower() == stripped_line.lower() ...)
IsTocKeywordLine(line, lang) ==
    Bind(Strip(line), LAMBDA stripped_line :
        \/ stripped_line \in toc_keywords(lang)
        \/ \E keyword \in toc_keywords(lang) : Lower(keyword) = Lower(stripped_line))

\* any(keyword.lower() == line.lower() for keyword in preface_keywords)
IsPrefaceLine(stripped_line, lang) ==
    \E keyword \in preface_keywords(lang) : Lower(keyword) = Lower(stripped_line)

\* some pattern of chapter_patterns is found in the line
IsChapterLine(stripped_line, lang) ==
    \E pat \in chapter_patterns(lang) : search(pat, stripped_line)

\* the scan for toc_start and toc_end from line i on (0-based); toc_start is
\* the start found so far.  Returns the final toc_start and toc_end.
RECURSIVE TocScan(_, _, _, _)
TocScan(lines, lang, i, toc_start) ==
    IF i >= Len(lines) THEN [toc_start |-> toc_start, toc_end |-> -1]
    ELSE Bind(Strip(lines[i + 1]), LAMBDA stripped_line :
         IF IsTocKeywordLine(lines[i + 1], lang)
         THEN TocScan(lines, lang, i + 1, i)
         ELSE IF toc_start = -1 THEN TocScan(lines, lang, i + 1, toc_start)
         ELSE IF stripped_line = <<>>
         THEN \* cand: the non-empty lines among the next TocLookahead - 1 lines
              Bind({j \in (i + 1)..(Min(i + TocLookahead, Len(lines)) - 1) :
                      Strip(lines[j + 1]) # <<>>},
                   LAMBDA cand :
              IF cand = {} THEN TocScan(lines, lang, i + 1, toc_start)
              ELSE Bind(CHOOSE j \in cand : \A k \in cand : j <= k, LAMBDA next_non_empty :
                   Bind(Strip(lines[next_non_empty + 1]), LAMBDA next_line :
                        IF Len(next_line) > TocLongNextLine
                           /\ ~IsChapterLine(next_line, lang)
                        THEN [toc_start |-> toc_start, toc_end |-> i]
                        ELSE TocScan(lines, lang, i + 1, toc_start))))
         ELSE IF Len(stripped_line) > TocLongLine
                 /\ ~IsChapterLine(stripped_line, lang)
                 /\ ~IsPrefaceLine(stripped_line, lang)
         THEN [toc_start |-> toc_start, toc_end |-> i - 1]
         ELSE TocScan(lines, lang, i + 1, toc_start))

\* lines[:toc_start + 1] + lines[k:]: the cut with the keyword line left in
CutLinesKeepKeyword(lines, toc_start, k) ==
    SubSeq(lines, 1, toc_start + 1) \o SubSeq(lines, k + 1, Len(lines))

\* lines[k:]: the cut with the lines before the keyword line forgotten
CutLinesDropHead(lines, toc_start, k) == SubSeq(lines, k + 1, Len(lines))

\* lines[:toc_start] + lines[k:]
CutLines(lines, toc_start, k) ==
    SubSeq(lines, 1, toc_start) \o SubSeq(lines, k + 1, Len(lines))

\* remove_table_of_contents with the language given (or already detected)
remove_table_of_contents(text, lang) ==
    IF Strip(text) = <<>> THEN text
    ELSE Bind(SplitLines(text), LAMBDA lines :
         Bind(TocScan(lines, lang, 0, -1), LAMBDA r :
              IF r.toc_start # -1 /\ r.toc_end # -1
              THEN JoinLines(CutLines(lines, r.toc_start, r.toc_end + 1))
              ELSE IF r.toc_start # -1
              THEN \* no toc_end: cut up to the first chapter or preface line
                   Bind({i \in (r.toc_start + 1)..(Len(lines) - 1) :
                           Bind(Strip(lines[i + 1]), LAMBDA stripped_line :
                                IsChapterLine(stripped_line, lang)
                                \/ IsPrefaceLine(stripped_line, lang))},
                        LAMBDA heads :
                        IF heads = {} THEN text
                        ELSE JoinLines(CutLines(lines, r.toc_start,
                                                CHOOSE i \in heads : \A k \in heads : i <= k)))
              ELSE text))


-----------------------------------------------------------------------------
(* parse_hierarchical_content *)

VolumePattern(lang) == IF lang = "english" THEN "en_volume" ELSE "cn_volume"

\* parse_chapters_from_content followed, if enabled, by validate_and_merge_chapters
ChaptersOf(text, lang, cfg) ==
    Bind(parse_chapters_from_content(text, lang, cfg), LAMBDA chs :
        IF cfg.enable_length_validation
        THEN validate_and_merge_chapters(chs, lang, cfg.min_chapter_length)
        ELSE chs)

\* the loop over the volume matches from match i on, seen being seen_volume_titles
RECURSIVE VolumeLoop(_, _, _, _, _, _)
VolumeLoop(text, lang, cfg, ms, i, seen) ==
    IF i > Len(ms) THEN <<>>
    ELSE Bind3(Strip(ms[i].group1), ms[i].end,
               IF i + 1 <= Len(ms) THEN ms[i + 1].start ELSE Len(text),
               LAMBDA volume_title, volume_start, volume_end :
         IF volume_title # <<>> /\ volume_title \notin seen
         THEN Bind(Slice(text, volume_start, volume_end), LAMBDA volume_content :
              Bind(ChaptersOf(volume_content, lang, cfg), LAMBDA chs :
                   IF Len(chs) > 0 THEN <<Volume(volume_title, chs)>>
                   ELSE IF Strip(volume_content) # <<>>
                   THEN <<Volume(volume_title,
                                 <<Chapter(IF lang = "chinese" THEN S_BodyCn ELSE S_BodyEn,
                                           Strip(volume_content), <<>>)>>)>>
                   ELSE <<>>))
              \o VolumeLoop(text, lang, cfg, ms, i + 1, seen \cup {volume_title})
         ELSE VolumeLoop(text, lang, cfg, ms, i + 1, seen))

\* the whole text kept as it is, not content.strip(), when no chapter is found
VolumesOfUnstripped(text, lang, cfg) ==
    Bind(finditer(VolumePattern(lang), text), LAMBDA volume_matches :
        IF Len(volume_matches) = 0
        THEN \* no volume heading: the chapters go under one untitled volume
             Bind(ChaptersOf(text, lang, cfg), LAMBDA chs :
                  IF Len(chs) > 0 THEN <<Volume(None, chs)>>
                  ELSE <<Volume(None,
                                <<Chapter(IF lang = "chinese" THEN S_BodyCn ELSE S_BodyEn,
                                          text, <<>>)>>)>>)
        ELSE Bind(volume_matches[1].start, LAMBDA first_volume_start :
             Bind(Slice(text, 0, first_volume_start), LAMBDA pre_content :
                  (IF first_volume_start > 0 /\ Strip(pre_content) # <<>>
                   THEN Bind(ChaptersOf(pre_content, lang, cfg), LAMBDA pre_chapters :
                             IF Len(pre_chapters) > 0 THEN <<Volume(None, pre_chapters)>>
                             ELSE <<Volume(None,
                                           <<Chapter(IF lang = "chinese"
                                                     THEN S_VolumePrefaceCn ELSE S_PrefaceEn,
                                                     Strip(pre_content), <<>>)>>)>>)
                   ELSE <<>>)
                  \o VolumeLoop(text, lang, cfg, volume_matches, 1, {}))))

\* the volumes built from the text once the table of contents is removed
VolumesOf(text, lang, cfg) ==
    Bind(finditer(VolumePattern(lang), text), LAMBDA volume_matches :
        IF Len(volume_matches) = 0
        THEN \* no volume heading: the chapters go under one untitled volume
             Bind(ChaptersOf(text, lang, cfg), LAMBDA chs :
                  IF Len(chs) > 0 THEN <<Volume(None, chs)>>
                  ELSE <<Volume(None,
                                <<Chapter(IF lang = "chinese" THEN S_BodyCn ELSE S_BodyEn,
                                          Strip(text), <<>>)>>)>>)
        ELSE Bind(volume_matches[1].start, LAMBDA first_volume_start :
             Bind(Slice(text, 0, first_volume_start), LAMBDA pre_content :
                  (IF first_volume_start > 0 /\ Strip(pre_content) # <<>>
                   THEN Bind(ChaptersOf(pre_content, lang, cfg), LAMBDA pre_chapters :
                             IF Len(pre_chapters) > 0 THEN <<Volume(None, pre_chapters)>>
                             ELSE <<Volume(None,
                                           <<Chapter(IF lang = "chinese"
                                                     THEN S_VolumePrefaceCn ELSE S_PrefaceEn,
                                                     Strip(pre_content), <<>>)>>)>>)
                   ELSE <<>>)
                  \o VolumeLoop(text, lang, cfg, volume_matches, 1, {}))))

\* parse_hierarchical_content with the closing "ensure at least one volume" left out
parse_without_fallback(text, cfg) ==
    IF Strip(text) = <<>>
    THEN <<Volume(None, <<Chapter(S_EmptyContent, S_EmptyDocument, <<>>)>>)>>
    ELSE Bind(detect_language(text), LAMBDA lang :
         Bind(remove_table_of_contents(text, lang), LAMBDA body :
              VolumesOf(body, lang, cfg)))

\* parse_hierarchical_content with the test for empty content left out
parse_without_empty_check(text, cfg) ==
    Bind(detect_language(text), LAMBDA lang :
    Bind(remove_table_of_contents(text, lang), LAMBDA body :
    Bind(VolumesOf(body, lang, cfg), LAMBDA vols :
         IF Len(vols) = 0
         THEN <<Volume(None,
                       <<Chapter(IF lang = "chinese" THEN S_UnknownCn ELSE S_UnknownEn,
                                 IF lang = "chinese" THEN S_UnparsedCn ELSE S_UnparsedEn,
                                 <<>>)>>)>>
         ELSE vols)))

parse_hierarchical_content(text, cfg) ==
    IF Strip(text) = <<>>
    THEN <<Volume(None, <<Chapter(S_EmptyContent, S_EmptyDocument, <<>>)>>)>>
    ELSE Bind(detect_language(text), LAMBDA lang :
         Bind(remove_table_of_contents(text, lang), LAMBDA body :
         Bind(VolumesOf(body, lang, cfg), LAMBDA vols :
              \* "ensure at least one volume"
              IF Len(vols) = 0
              THEN <<Volume(None,
                            <<Chapter(IF lang = "chinese" THEN S_UnknownCn ELSE S_UnknownEn,
                                      IF lang = "chinese" THEN S_UnparsedCn ELSE S_UnparsedEn,
                                      <<>>)>>)>>
              ELSE vols)))


-----------------------------------------------------------------------------
(* Inputs.  A text is a list of lines joined by "\n"; each line is drawn    *)
(* from a menu of line shapes of one language.                             *)

MaxLines == 4
SmallMinChapterLength == 9

\* wen (U+6587) is an ordinary CJK character of running prose
CnBlank      == <<>>
CnHeading1   == <<"di", "yi", "zhang", " ", "wen">>
CnHeading2   == <<"di", "er", "zhang", " ", "wen">>
CnProse      == <<"wen", "wen", "wen", "wen", "wen", "wen", "wen", "wen", "wen">>
CnSectionHd  == <<"di", "yi", "jie", " ", "wen">>
CnVolumeHd   == <<"di", "yi", "juan", " ", "wen">>
CnTocWord    == <<"mu", "lu">>

CnMenu == {CnBlank, CnHeading1, CnHeading2, CnProse, CnSectionHd, CnVolumeHd, CnTocWord}

EnBlank      == <<>>
EnHeading1   == <<"C", "h", "a", "p", "t", "e", "r", " ", "1">>
EnHeading2   == <<"C", "h", "a", "p", "t", "e", "r", " ", "2", ":", " ", "x">>
EnProse      == <<"x", "x", "x", "x", "x", "x", "x", "x", "x">>

EnMenu == {EnBlank, EnHeading1, EnHeading2, EnProse}

\* the lists of at most n lines over a menu
LineLists(menu, n) == UNION {[1..k -> menu] : k \in 1..n}

ParseTexts == {JoinLines(ls) : ls \in LineLists(CnMenu, MaxLines)}
              \cup {JoinLines(ls) : ls \in LineLists(EnMenu, MaxLines)}

\* ParserConfig: both toggles, and a threshold small enough for the texts
Configs == [enable_chapter_validation : BOOLEAN,
            enable_length_validation : BOOLEAN,
            min_chapter_length : {SmallMinChapterLength}]

\* ParserConfig() with the threshold scaled to the texts
DefaultConfig == [enable_chapter_validation |-> TRUE,
                  enable_length_validation |-> TRUE,
                  min_chapter_length |-> SmallMinChapterLength]

-----------------------------------------------------------------------------
(* Spec: a caller hands a text and a configuration to                      *)
(* parse_hierarchical_content.                                             *)

Init ==
    /\ pc = "start"
    /\ content \in ParseTexts
    /\ config \in Configs
    /\ language = detect_language(content)
    /\ volumes = <<>>
    /\ chapter_list = <<>>
    /\ cleaned = <<>>
    /\ cleaned2 = <<>>
    /\ chapters = <<>>
    /\ min_length = 0
    /\ merged = <<>>
    /\ ValidationIdle /\ AuditIdle /\ RunIdle

ParseHierarchical ==
    /\ pc = "start"
    /\ volumes' = parse_hierarchical_content(content, config)
    /\ pc' = "parsed"
    /\ UNCHANGED <<content, language, config, chapter_list, cleaned, cleaned2, chapters,
                   min_length, merged>>
    /\ UNCHANGED <<validationVars, auditVars, runVars>>

Next == ParseHierarchical

Spec == Init /\ [][Next]_vars

-----------------------------------------------------------------------------
(* Properties of the returned tree, under Spec *)

\* no two entries of a list of records have the same title
DistinctTitles(xs) == \A i, j \in 1..Len(xs) : i # j => xs[i].title # xs[j].title

\* C1: for every text (empty, blank or not) and every configuration,
\* parse_hierarchical_content returns at least one Volume and every Volume it
\* returns has at least one Chapter.
C1_NeverEmptyTree ==
    pc = "parsed" =>
        /\ Len(volumes) >= 1
        /\ \A v \in 1..Len(volumes) : Len(volumes[v].chapters) >= 1

\* a volume heading with nothing under it: no volume is built from it, and the
\* closing fallback supplies the only volume
C1_Witness ==
    /\ pc = "parsed"
    /\ content = CnVolumeHd
    /\ volumes = <<Volume(None, <<Chapter(S_UnknownCn, S_UnparsedCn, <<>>)>>)>>

\* C3: in the returned tree no two Volumes have the same non-null title, no two
\* Chapters of one Volume have the same title and no two Sections of one Chapter
\* have the same title, synthetic titles included.
C3_NoDuplicateSiblingTitles ==
    pc = "parsed" =>
        /\ \A i, j \in 1..Len(volumes) :
              (i # j /\ volumes[i].title # None) => volumes[i].title # volumes[j].title
        /\ \A v \in 1..Len(volumes) :
              /\ DistinctTitles(volumes[v].chapters)
              /\ \A c \in 1..Len(volumes[v].chapters) :
                    DistinctTitles(volumes[v].chapters[c].sections)

\* the same heading twice with validation off: both match, the second is dropped
C3_Witness ==
    /\ pc = "parsed"
    /\ ~config.enable_chapter_validation
    /\ ~config.enable_length_validation
    /\ content = JoinLines(<<CnHeading1, CnProse, CnHeading1, CnProse>>)
    /\ Len(volumes) = 1
    /\ Len(volumes[1].chapters) = 1
    /\ volumes[1].chapters[1].title = CnHeading1

\* the lines of a text that are chapter headings of the menus
HeadingLines == {CnHeading1, CnHeading2, EnHeading1, EnHeading2}
\* the lines of a text that are body: prose or blank
BodyLines == {CnProse, EnProse, CnBlank}

\* N >= 2 headings with distinct titles, each alone on its line and each followed
\* by at least one body line; nothing else in the text
SimpleChapters(lines) ==
    LET heads == {i \in 1..Len(lines) : lines[i] \in HeadingLines}
    IN /\ Cardinality(heads) >= 2
       /\ 1 \in heads
       /\ \A i \in 1..Len(lines) : lines[i] \in HeadingLines \cup BodyLines
       /\ \A i \in heads : i + 1 <= Len(lines) /\ lines[i + 1] \in BodyLines
       /\ \A i, j \in heads : i # j => lines[i] # lines[j]

\* the titles of a chapter list, in order
TitlesOf(chs) == [k \in 1..Len(chs) |-> chs[k].title]

\* the headings of a list of lines, in document order
HeadingsOf(lines) == SelectSeq(lines, LAMBDA l : l \in HeadingLines)

\* C4: with chapter validation on and length validation off, N >= 2 distinct
\* headings, each on its own line and followed by body lines, give one Volume
\* whose N Chapters carry the headings as titles, in document order.
C4_SimpleChaptersAllFound ==
    (/\ pc = "parsed"
     /\ config.enable_chapter_validation
     /\ ~config.enable_length_validation
     /\ SimpleChapters(SplitLines(content)))
    => /\ Len(volumes) = 1
       /\ TitlesOf(volumes[1].chapters) = HeadingsOf(SplitLines(content))

-----------------------------------------------------------------------------
(* SpecDefault: parse_hierarchical_content under ParserConfig(), on longer  *)
(* Chinese texts over a menu of headings, a section heading and prose that  *)
(* begins with zhong (U+4E2D).                                             *)

MaxDefaultLines == 5

CnLongHeading2 == <<"di", "er", "zhang", " ", "wen", "wen", "wen", "wen", "wen">>
CnHeading3     == <<"di", "san", "zhang", " ", "wen">>
CnProseZhong   == <<"zhong", "wen", "wen", "wen", "wen", "wen", "wen", "wen", "wen">>

CnDefaultMenu == {CnBlank, CnHeading1, CnSectionHd, CnLongHeading2, CnHeading3, CnProseZhong}

DefaultTexts == {JoinLines(ls) : ls \in LineLists(CnDefaultMenu, MaxDefaultLines)}

InitDefault ==
    /\ pc = "start"
    /\ content \in DefaultTexts
    /\ config = DefaultConfig
    /\ language = detect_language(content)
    /\ volumes = <<>>
    /\ chapter_list = <<>>
    /\ cleaned = <<>>
    /\ cleaned2 = <<>>
    /\ chapters = <<>>
    /\ min_length = 0
    /\ merged = <<>>
    /\ ValidationIdle /\ AuditIdle /\ RunIdle

SpecDefault == InitDefault /\ [][Next]_vars

\* C2: under the default configuration every Chapter of the returned tree has
\* empty content if it has sections and non-empty content if it has none, also
\* after it absorbed a short chapter.
C2_ContentXorSections ==
    pc = "parsed" =>
        \A v \in 1..Len(volumes) : \A c \in 1..Len(volumes[v].chapters) :
            LET ch == volumes[v].chapters[c]
            IN /\ (Len(ch.sections) > 0 => ch.content = <<>>)
               /\ (Len(ch.sections) = 0 => ch.content # <<>>)

\* the text is the heading "di yi zhang wen" on the first line and then a body
\* of prose and blank lines at least min_chapter_length characters long
HeadingThenLongBody(text, cfg) ==
    LET lines == SplitLines(text)
    IN /\ Len(lines) >= 2
       /\ lines[1] = CnHeading1
       /\ \A i \in 2..Len(lines) : lines[i] \in {CnProseZhong, CnBlank}
       /\ Len(JoinLines(Tail(lines))) >= cfg.min_chapter_length

\* C5: under the default configuration a heading line followed by a body of at
\* least min_chapter_length characters with no heading-like line gives exactly
\* one chapter, titled by the heading, whatever the body begins with.
C5_HeadingThenBodyOneChapter ==
    (pc = "parsed" /\ HeadingThenLongBody(content, config))
    => /\ Len(volumes) = 1
       /\ Len(volumes[1].chapters) = 1
       /\ volumes[1].chapters[1].title = CnHeading1

-----------------------------------------------------------------------------
(* SpecChapters: a caller hands a text to parse_chapters_from_content.  The *)
(* menus hold a heading, a heading marker with no title on its line, and a  *)
(* prose line that mentions a chapter ("wen di er zhang wen",               *)
(* "see Chapter 2").                                                        *)

MaxChapterLines == 4

CnBareHead   == <<"di", "san", "zhang">>
CnInlineRef  == <<"wen", "di", "er", "zhang", " ", "wen">>
CnShortProse == <<"wen", "wen">>
EnColonHead  == <<"C", "h", "a", "p", "t", "e", "r", " ", "3", ":">>
EnInlineRef  == <<"s", "e", "e", " ", "C", "h", "a", "p", "t", "e", "r", " ", "2">>

CnChapterMenu == {CnBlank, CnHeading1, CnBareHead, CnInlineRef, CnShortProse}
EnChapterMenu == {EnBlank, EnHeading1, EnColonHead, EnInlineRef}

ChapterTexts == {JoinLines(ls) : ls \in LineLists(CnChapterMenu, MaxChapterLines)}
                \cup {JoinLines(ls) : ls \in LineLists(EnChapterMenu, MaxChapterLines)}

InitChapters ==
    /\ pc = "start"
    /\ content \in ChapterTexts
    /\ config \in Configs
    /\ language = detect_language(content)
    /\ volumes = <<>>
    /\ chapter_list = <<>>
    /\ cleaned = <<>>
    /\ cleaned2 = <<>>
    /\ chapters = <<>>
    /\ min_length = 0
    /\ merged = <<>>
    /\ ValidationIdle /\ AuditIdle /\ RunIdle

ParseChapters ==
    /\ pc = "start"
    /\ chapter_list' = parse_chapters_from_content(content, language, config)
    /\ pc' = "chapters"
    /\ UNCHANGED <<content, language, config, volumes, cleaned, cleaned2, chapters,
                   min_length, merged>>
    /\ UNCHANGED <<validationVars, auditVars, runVars>>

NextChapters == ParseChapters

SpecChapters == InitChapters /\ [][NextChapters]_vars

\* w occurs in s
Contains(s, w) == \E p \in 0..(Len(s) - Len(w)) : StartsWith(s, p, w)

\* the lines that carry a chapter marker after other text, and the marker with
\* the rest of the line
InlineLines == {CnInlineRef, EnInlineRef}
MarkerOf(line) == IF line = CnInlineRef THEN Slice(line, 1, Len(line))
                  ELSE Slice(line, 4, Len(line))

\* the line is part of the body of the chapter: of its content or of one of its
\* sections
InBodyOf(ch, line) ==
    \/ Contains(ch.content, line)
    \/ \E k \in 1..Len(ch.sections) : Contains(ch.sections[k].content, line)

\* C6: with chapter validation on, a chapter marker with text before it on its
\* line starts no Chapter, and its line stays in the content of the chapter
\* around it.
C6_InlineMarkerStaysInContent ==
    (pc = "chapters" /\ config.enable_chapter_validation)
    => \A i \in 1..Len(SplitLines(content)) :
          LET line == SplitLines(content)[i]
          IN line \in InlineLines =>
                /\ \A c \in 1..Len(chapter_list) :
                      ~StartsWith(chapter_list[c].title, 0, MarkerOf(line))
                /\ (Len(chapter_list) > 0
                    => \E c \in 1..Len(chapter_list) : InBodyOf(chapter_list[c], line))

-----------------------------------------------------------------------------
(* SpecTOC: a caller hands a text and a language tag to                     *)
(* remove_table_of_contents, then hands it the result again.                *)

MaxTocLines == 5

CnTocEntry == <<"di", "yi", "zhang", " ", ".", ".", " ", "1">>
\* 51 characters of prose: longer than TocLongLine
CnLongProse == [k \in 1..(TocLongLine + 1) |-> "wen"]
EnTocWord  == <<"C", "o", "n", "t", "e", "n", "t", "s">>
EnTocEntry == <<"C", "h", "a", "p", "t", "e", "r", " ", "1", " ", ".", ".", " ", "1">>
EnLongProse == [k \in 1..(TocLongLine + 1) |-> "x"]

CnTocMenu == {CnTocWord, CnTocEntry, CnBlank, CnHeading1, CnLongProse}
EnTocMenu == {EnTocWord, EnTocEntry, EnBlank, EnHeading1, EnLongProse}

TocTexts == {JoinLines(ls) : ls \in LineLists(CnTocMenu, MaxTocLines)}
            \cup {JoinLines(ls) : ls \in LineLists(EnTocMenu, MaxTocLines)}

InitTOC ==
    /\ pc = "start"
    /\ content \in TocTexts
    /\ language \in {"chinese", "english"}
    /\ config = DefaultConfig
    /\ volumes = <<>>
    /\ chapter_list = <<>>
    /\ cleaned = <<>>
    /\ cleaned2 = <<>>
    /\ chapters = <<>>
    /\ min_length = 0
    /\ merged = <<>>
    /\ ValidationIdle /\ AuditIdle /\ RunIdle

RemoveTOC ==
    /\ pc = "start"
    /\ cleaned' = remove_table_of_contents(content, language)
    /\ pc' = "cleaned"
    /\ UNCHANGED <<content, language, config, volumes, chapter_list, cleaned2, chapters,
                   min_length, merged>>
    /\ UNCHANGED <<validationVars, auditVars, runVars>>

RemoveTOCAgain ==
    /\ pc = "cleaned"
    /\ cleaned2' = remove_table_of_contents(cleaned, language)
    /\ pc' = "cleaned_again"
    /\ UNCHANGED <<content, language, config, volumes, chapter_list, cleaned, chapters,
                   min_length, merged>>
    /\ UNCHANGED <<validationVars, auditVars, runVars>>

NextTOC == RemoveTOC \/ RemoveTOCAgain

SpecTOC == InitTOC /\ [][NextTOC]_vars

\* the keyword, entry, heading and prose lines of the two menus
TocWordLines  == {CnTocWord, EnTocWord}
TocEntryLines == {CnTocEntry, EnTocEntry}
RealHeadings  == {CnHeading1, EnHeading1}
ProseLines    == {CnLongProse, EnLongProse}

\* a keyword line, entry lines, a blank line, the real heading, then prose;
\* h is the (1-based) line of the real heading
TocThenChapter(lines, h) ==
    /\ h >= 4
    /\ h < Len(lines)
    /\ lines[1] \in TocWordLines
    /\ \A i \in 2..(h - 2) : lines[i] \in TocEntryLines
    /\ lines[h - 1] = <<>>
    /\ lines[h] \in RealHeadings
    /\ \A i \in (h + 1)..Len(lines) : lines[i] \in ProseLines

\* C7: for a keyword line, entry lines, a blank line, the real first heading and
\* its prose, the result holds neither the keyword line nor an entry line and
\* still ends with the heading line and all the prose after it, in order.
C7_TocRemovedHeadingKept ==
    pc = "cleaned" =>
        \A h \in 1..MaxTocLines :
            LET lines == SplitLines(content)
                out   == SplitLines(cleaned)
            IN (TocThenChapter(lines, h) /\ IsTocKeywordLine(lines[1], language))
               => /\ \A i \in 1..Len(out) : out[i] \notin TocWordLines \cup TocEntryLines
                  /\ \E k \in 1..Len(out) :
                        SubSeq(out, k, Len(out)) = SubSeq(lines, h, Len(lines))

\* the 0-based indices of the lines that are a TOC keyword of the language
KeywordLines(text, lang) ==
    {i \in 0..(Len(SplitLines(text)) - 1) : IsTocKeywordLine(SplitLines(text)[i + 1], lang)}

\* C8 as stated: for every text and language tag, applying
\* remove_table_of_contents to its own output changes nothing.
C8_Idempotent == pc = "cleaned_again" => cleaned2 = cleaned

\* C8, amended: for every text with at most one TOC keyword line, and every
\* language tag, applying remove_table_of_contents to its own output changes
\* nothing.
C8_IdempotentOneKeyword ==
    (pc = "cleaned_again" /\ Cardinality(KeywordLines(content, language)) <= 1)
    => cleaned2 = cleaned

\* one keyword line, a block was removed by the first call, the second call
\* finds nothing to remove
C8_Witness ==
    /\ pc = "cleaned_again"
    /\ Cardinality(KeywordLines(content, language)) = 1
    /\ cleaned # content
    /\ cleaned2 = cleaned

\* C9: the result is the input with at most one contiguous block of lines
\* removed and no line altered; a removed block begins at a line that, trimmed,
\* equals a TOC keyword case-insensitively; with no such line in the input the
\* result is the input.
C9_OneBlockFromKeyword ==
    pc = "cleaned" =>
        LET lines == SplitLines(content)
        IN /\ \/ cleaned = content
              \/ \E a \in 1..Len(lines) : \E b \in a..Len(lines) :
                    /\ IsTocKeywordLine(lines[a], language)
                    /\ cleaned = JoinLines(SubSeq(lines, 1, a - 1)
                                           \o SubSeq(lines, b + 1, Len(lines)))
           /\ (KeywordLines(content, language) = {} => cleaned = content)

\* a block that begins at a keyword line in the middle of the text was removed
C9_Witness ==
    /\ pc = "cleaned"
    /\ cleaned # content
    /\ SplitLines(content)[1] \notin TocWordLines
    /\ KeywordLines(content, language) # {}
    /\ SplitLines(cleaned)[1] = SplitLines(content)[1]

-----------------------------------------------------------------------------
(* SpecMerge: a caller hands a chapter list, a language tag and a threshold *)
(* to validate_and_merge_chapters.                                          *)

MaxChapters == 3

\* content that is long only by its surrounding blanks
CnPaddedProse == <<" ", " ", " ", " ", "wen", " ", " ", " ", " ">>

ChapterTitles   == {CnHeading1, CnHeading2}
ChapterContents == {<<>>, CnShortProse, CnProse, CnPaddedProse}
SectionLists    == {<<>>, <<Section(CnSectionHd, CnProse)>>}

ChapterKinds == {Chapter(t, c, ss) : t \in ChapterTitles, c \in ChapterContents,
                                     ss \in SectionLists}

ChapterLists == UNION {[1..k -> ChapterKinds] : k \in 0..MaxChapters}

InitMerge ==
    /\ pc = "start"
    /\ chapters \in ChapterLists
    /\ language \in {"chinese", "english"}
    /\ min_length = SmallMinChapterLength
    /\ content = <<>>
    /\ config = DefaultConfig
    /\ volumes = <<>>
    /\ chapter_list = <<>>
    /\ cleaned = <<>>
    /\ cleaned2 = <<>>
    /\ merged = <<>>
    /\ ValidationIdle /\ AuditIdle /\ RunIdle

Merge ==
    /\ pc = "start"
    /\ merged' = validate_and_merge_chapters(chapters, language, min_length)
    /\ pc' = "merged"
    /\ UNCHANGED <<content, language, config, volumes, chapter_list, cleaned, cleaned2,
                   chapters, min_length>>
    /\ UNCHANGED <<validationVars, auditVars, runVars>>

NextMerge == Merge

SpecMerge == InitMerge /\ [][NextMerge]_vars

\* the length of a chapter: of its content and the content of its sections, with
\* the blanks around the whole left out
TrimmedLength(ch) ==
    LET total == ch.content \o SectionsContent(ch.sections)
        first == {i \in 1..Len(total) : ~IsSpace(total[i])}
    IN IF first = {} THEN 0
       ELSE (CHOOSE i \in first : \A j \in first : j <= i)
            - (CHOOSE i \in first : \A j \in first : i <= j) + 1

\* two chapters under the threshold, then one at or above it
ShortShortLong(chs, minlen) ==
    /\ Len(chs) = 3
    /\ TrimmedLength(chs[1]) < minlen
    /\ TrimmedLength(chs[2]) < minlen
    /\ TrimmedLength(chs[3]) >= minlen

\* C10: for two adjacent chapters under min_length followed by one at or above
\* it, validate_and_merge_chapters returns fewer chapters than it was given and
\* the long chapter is an entry of the result with its title, content and
\* sections unchanged.
C10_ShortsMergedLongKept ==
    (pc = "merged" /\ ShortShortLong(chapters, min_length))
    => /\ Len(merged) < Len(chapters)
       /\ \E k \in 1..Len(merged) : merged[k] = chapters[3]

\* two short chapters flushed as one entry, the long chapter, long by its
\* section, after it
C10_Witness ==
    /\ pc = "merged"
    /\ ShortShortLong(chapters, min_length)
    /\ Len(chapters[3].sections) > 0
    /\ Len(merged) = 2
    /\ merged[1].title = chapters[1].title
    /\ merged[2] = chapters[3]

\* every chapter of the list is at or above the threshold
AllLong(chs, minlen) == \A i \in 1..Len(chs) : TrimmedLength(chs[i]) >= minlen

\* C11: if every chapter of the input list has total content length (content
\* plus the content of all its sections, stripped) at or above min_length,
\* validate_and_merge_chapters returns a list equal to the input: the same
\* chapters in the same order, nothing merged or rewritten.
C11_AllLongReturnedAsGiven ==
    (pc = "merged" /\ AllLong(chapters, min_length)) => merged = chapters

\* three chapters exactly at the threshold, one of them by its section alone and
\* one by its own content and a section, returned as given
C11_Witness ==
    /\ pc = "merged"
    /\ Len(chapters) = 3
    /\ AllLong(chapters, min_length)
    /\ TrimmedLength(chapters[1]) = min_length
    /\ chapters[2].content = <<>>
    /\ Len(chapters[3].sections) > 0 /\ chapters[3].content # <<>>
    /\ merged = chapters

-----------------------------------------------------------------------------
(* WordCountValidator (src/tasks/txt-to-epub/word_count_validator.py)        *)
(*                                                                           *)
(* An empty dict is <<>>.  A function that can raise returns either its      *)
(* value or the record [raised |-> <exception class>].  A float that is a    *)
(* percentage is the exact fraction num / den with den > 0; every comparison *)
(* of the code against a constant is made on the fraction.                   *)

\* re.sub(r'\s+', '', text), then re.sub(r'[　　]+', '', cleaned)
clean_text_for_counting(text) == SelectSeq(text, LAMBDA c : ~IsSpace(c))

\* [a-zA-Z0-9]
IsEnglishChar(c) == IsLatin(c) \/ c \in Digits

\* [　-〿＀-￯] or [.,!?;:()\[\]<>"'\\-]
IsPunctuation(c) == c \in CjkPunct \/ c \in {".", ",", ":", ";", "-"}

count_characters(text) ==
    Bind(clean_text_for_counting(text), LAMBDA cleaned_text :
         [chinese_chars   |-> Len(SelectSeq(cleaned_text, IsCjk)),
          english_chars   |-> Len(SelectSeq(cleaned_text, IsEnglishChar)),
          punctuation     |-> Len(SelectSeq(cleaned_text, IsPunctuation)),
          total_chars     |-> Len(cleaned_text),
          original_length |-> Len(text)])

\* "if x: all_content.append(x)" for a title or a content
AppendIfAny(all_content, x) ==
    IF x # None /\ x # <<>> THEN Append(all_content, x) ELSE all_content

RECURSIVE SectionsText(_, _)
SectionsText(all_content, sections) ==
    IF Len(sections) = 0 THEN all_content
    ELSE SectionsText(AppendIfAny(AppendIfAny(all_content, sections[1].title),
                                  sections[1].content),
                      Tail(sections))

RECURSIVE ChaptersText(_, _)
ChaptersText(all_content, chs) ==
    IF Len(chs) = 0 THEN all_content
    ELSE ChaptersText(SectionsText(AppendIfAny(AppendIfAny(all_content, chs[1].title),
                                               chs[1].content),
                                   chs[1].sections),
                      Tail(chs))

RECURSIVE VolumesText(_, _)
VolumesText(all_content, vols) ==
    IF Len(vols) = 0 THEN all_content
    ELSE VolumesText(ChaptersText(AppendIfAny(all_content, vols[1].title), vols[1].chapters),
                     Tail(vols))

\* '\n'.join(all_content)
extract_content_from_volumes(vols) ==
    Bind(VolumesText(<<>>, vols), LAMBDA all_content :
         IF Len(all_content) = 0 THEN <<>> ELSE JoinLines(all_content))

\* the fraction num / den
Fraction(num, den) == [num |-> num, den |-> den]
\* rate <= tenths / 10
AtMostTenths(rate, tenths) == 10 * rate.num <= tenths * rate.den

\* the loss rate with its operands exchanged
calc_loss_rate_swapped(original, converted) ==
    IF original = 0 THEN Fraction(0, 1)
    ELSE Fraction((converted - original) * 100, original)

\* (original - converted) / original * 100, and 0.0 for original == 0
calc_loss_rate(original, converted) ==
    IF original = 0 THEN Fraction(0, 1)
    ELSE Fraction((original - converted) * 100, original)

\* converted - original, per class
Differences(original, converted) ==
    [chinese_chars |-> converted.chinese_chars - original.chinese_chars,
     english_chars |-> converted.english_chars - original.english_chars,
     punctuation   |-> converted.punctuation - original.punctuation,
     total_chars   |-> converted.total_chars - original.total_chars]

LossRates(original, converted) ==
    [chinese_chars |-> calc_loss_rate(original.chinese_chars, converted.chinese_chars),
     english_chars |-> calc_loss_rate(original.english_chars, converted.english_chars),
     total_chars   |-> calc_loss_rate(original.total_chars, converted.total_chars)]

\* compare_content: the pair (is_valid, result)
compare_content(original, converted) ==
    IF original = <<>> \/ converted = <<>>
    THEN <<FALSE, [error |-> "missing statistics"]>>
    ELSE Bind2(Differences(original, converted), LossRates(original, converted),
               LAMBDA differences, loss_rates :
         Bind(/\ AtMostTenths(loss_rates.chinese_chars, 10)
              /\ AtMostTenths(loss_rates.english_chars, 20)
              /\ AtMostTenths(loss_rates.total_chars, 10)
              \* chinese_diff >= -original_stats['chinese_chars'] * 0.01
              /\ 100 * differences.chinese_chars >= -original.chinese_chars,
              LAMBDA is_valid :
              <<is_valid,
                [is_valid        |-> is_valid,
                 original_stats  |-> original,
                 converted_stats |-> converted,
                 differences     |-> differences,
                 loss_rates      |-> loss_rates]>>))

\* an exception of the named class leaves the function
Raise(exception) == [raised |-> exception]
Raised(value) == "raised" \in DOMAIN value

\* abs(n)
Abs(n) == IF n < 0 THEN -n ELSE n

\* analysis['chinese_reason'] (and the chinese_concern that goes with it)
ChineseReason(original, d) ==
    IF 200 * Abs(d) <= original.chinese_chars THEN "stable"
    ELSE IF d > 0 THEN "gain"
    ELSE IF AtMostTenths(Fraction(Abs(d) * 100, original.chinese_chars), 10) THEN "minor loss"
    ELSE "marked loss"

\* analysis['english_reason'] (and english_concern)
EnglishReason(original, d) ==
    IF 50 * Abs(d) <= original.english_chars \/ Abs(d) <= 10 THEN "stable"
    ELSE IF d > 0 THEN "gain"
    ELSE IF AtMostTenths(Fraction(Abs(d) * 100, Max(original.english_chars, 1)), 50)
    THEN "minor loss"
    ELSE "marked loss"

\* analysis['punctuation_reason'] (and punctuation_concern)
PunctuationReason(original, d) ==
    IF 10 * Abs(d) <= original.punctuation \/ Abs(d) <= 5 THEN "stable"
    ELSE IF d > 0 THEN "gain"
    ELSE "loss"

\* analysis['overall_reason'] (and overall_concern); original.total_chars # 0
OverallReason(total_loss_rate) ==
    IF AtMostTenths(total_loss_rate, 5) THEN "stable"
    ELSE IF AtMostTenths(total_loss_rate, 10) THEN "slight loss"
    ELSE IF AtMostTenths(total_loss_rate, 20) THEN "some loss"
    ELSE "marked loss"

analyze_content_changes(original, converted) ==
    IF original = <<>> \/ converted = <<>> THEN [error |-> "missing statistics"]
    ELSE Bind(Differences(original, converted), LAMBDA diffs :
         \* (original - converted) / original_stats['total_chars'] * 100
         IF original.total_chars = 0 THEN Raise("ZeroDivisionError")
         ELSE [chinese_reason     |-> ChineseReason(original, diffs.chinese_chars),
               english_reason     |-> EnglishReason(original, diffs.english_chars),
               punctuation_reason |-> PunctuationReason(original, diffs.punctuation),
               overall_reason     |-> OverallReason(
                   Fraction((original.total_chars - converted.total_chars) * 100,
                            original.total_chars))])

\* the "- ..." lines under the failed heading, in order
FailureLines(rates) ==
    (IF AtMostTenths(rates.chinese_chars, 10) THEN <<>> ELSE <<"chinese loss above 1%">>)
    \o (IF AtMostTenths(rates.english_chars, 20) THEN <<>> ELSE <<"english loss above 2%">>)
    \o (IF AtMostTenths(rates.total_chars, 10) THEN <<>> ELSE <<"total loss above 1%">>)

\* the report, by its parts: the table of counts, differences and loss rates,
\* the heading and the lines of the verdict, the table of reasons
generate_validation_report(original, converted) ==
    Bind2(compare_content(original, converted), analyze_content_changes(original, converted),
          LAMBDA compared, analysis :
          IF Raised(analysis) THEN analysis
          \* diffs = result['differences'] on the error dict
          ELSE IF original = <<>> \/ converted = <<>> THEN Raise("KeyError")
          ELSE [table    |-> [original_stats  |-> compared[2].original_stats,
                              converted_stats |-> compared[2].converted_stats,
                              differences     |-> compared[2].differences,
                              loss_rates      |-> compared[2].loss_rates],
                verdict  |-> IF compared[1] THEN "passed" ELSE "failed",
                failures |-> IF compared[1] THEN <<>>
                             ELSE FailureLines(compared[2].loss_rates),
                analysis |-> analysis])

\* validate_conversion_integrity: (is_valid, report), or the exception raised
validate_conversion_integrity(text, vols) ==
    Bind2(count_characters(text), count_characters(extract_content_from_volumes(vols)),
          LAMBDA original, converted :
          Bind(generate_validation_report(original, converted), LAMBDA report :
               IF Raised(report) THEN report
               ELSE [is_valid |-> compare_content(original, converted)[1],
                     report   |-> report]))

-----------------------------------------------------------------------------
(* SpecAudit: a caller hands an original text and a Document to              *)
(* validate_conversion_integrity, which runs statement by statement.         *)
(* The texts are long enough for one character to be 1% or 2% of a class.    *)

AuditUnit == 100

\* c repeated n times
Rep(c, n) == [i \in 1..n |-> c]

CjkCounts   == {0, AuditUnit, 2 * AuditUnit}
LatinCounts == {0, AuditUnit \div 2, AuditUnit}

\* p punctuation marks, ASCII and CJK
PunctPart(p) == SubSeq(<<".", "cn_period">>, 1, p)

\* a text of b Latin letters, a CJK characters, p punctuation marks and q other
\* characters, with blanks between the parts
ManuscriptOf(a, b, p, q) ==
    Rep("x", b) \o <<"\n">> \o Rep("wen", a) \o <<" ">> \o PunctPart(p) \o Rep("*", q)
    \o <<"\n">>

\* the same characters as a Document, in one of three layouts
Layouts == {"chapter", "sections", "volume"}
DocumentOf(layout, a, b, p, q) ==
    IF layout = "chapter"
    THEN <<Volume(None, <<Chapter(Rep("x", b),
                                  Rep("wen", a) \o <<" ">> \o PunctPart(p) \o Rep("*", q),
                                  <<>>)>>)>>
    ELSE IF layout = "sections"
    THEN <<Volume(None, <<Chapter(Rep("x", b), <<>>,
                                  <<Section(Rep("wen", a),
                                            PunctPart(p) \o Rep("*", q))>>)>>)>>
    ELSE <<Volume(Rep("x", b),
                  <<Chapter(Rep("wen", a), PunctPart(p) \o Rep("*", q), <<>>)>>)>>

ParserIdle ==
    /\ content = <<>>
    /\ language = "chinese"
    /\ config = DefaultConfig
    /\ chapter_list = <<>>
    /\ cleaned = <<>>
    /\ cleaned2 = <<>>
    /\ chapters = <<>>
    /\ min_length = 0
    /\ merged = <<>>

InitAudit ==
    /\ pc = "start"
    /\ \E a \in CjkCounts, b \in LatinCounts, p \in 0..2, q \in 0..1 :
       \E da \in -2..1, db \in -3..1, dp \in -1..0, layout \in Layouts :
          /\ a + da >= 0 /\ b + db >= 0 /\ p + dp >= 0
          /\ original_content \in
                {ManuscriptOf(a, b, p, q)} \cup (IF a + b + p + q = 0 THEN {<<>>} ELSE {})
          /\ volumes = DocumentOf(layout, a + da, b + db, p + dp, q)
    /\ original_stats = <<>>
    /\ converted_stats = <<>>
    /\ audit = <<>>
    /\ ParserIdle /\ ValidationIdle /\ RunIdle

\* what a call of the validator leaves alone
notAuditVars == <<content, language, config, chapter_list, cleaned, cleaned2, chapters,
                  min_length, merged, validationVars, runVars>>

\* validator.analyze_original_content(original_content)
AnalyzeOriginal ==
    /\ pc = "start"
    /\ original_stats' = count_characters(original_content)
    /\ pc' = "original analyzed"
    /\ UNCHANGED <<original_content, volumes, converted_stats, audit>>
    /\ UNCHANGED notAuditVars

\* validator.analyze_converted_content(volumes)
AnalyzeConverted ==
    /\ pc = "original analyzed"
    /\ converted_stats' = count_characters(extract_content_from_volumes(volumes))
    /\ pc' = "converted analyzed"
    /\ UNCHANGED <<original_content, volumes, original_stats, audit>>
    /\ UNCHANGED notAuditVars

\* generate_validation_report: is_valid, result = self.compare_content()
ReportCompare ==
    /\ pc = "converted analyzed"
    /\ audit' = [compared |-> compare_content(original_stats, converted_stats)]
    /\ pc' = "compared"
    /\ UNCHANGED <<original_content, volumes, original_stats, converted_stats>>
    /\ UNCHANGED notAuditVars

\* generate_validation_report, from analyze_content_changes to its return
GenerateReport ==
    /\ pc = "compared"
    /\ Bind(generate_validation_report(original_stats, converted_stats), LAMBDA report :
            IF Raised(report)
            THEN audit' = report /\ pc' = "raised"
            ELSE audit' = [report |-> report] /\ pc' = "reported")
    /\ UNCHANGED <<original_content, volumes, original_stats, converted_stats>>
    /\ UNCHANGED notAuditVars

\* is_valid, _ = validator.compare_content(); return is_valid, report
ReturnAudit ==
    /\ pc = "reported"
    /\ audit' = [is_valid |-> compare_content(original_stats, converted_stats)[1],
                 report   |-> audit.report]
    /\ pc' = "returned"
    /\ UNCHANGED <<original_content, volumes, original_stats, converted_stats>>
    /\ UNCHANGED notAuditVars

NextAudit ==
    \/ AnalyzeOriginal
    \/ AnalyzeConverted
    \/ ReportCompare
    \/ GenerateReport
    \/ ReturnAudit

SpecAudit == InitAudit /\ [][NextAudit]_vars

-----------------------------------------------------------------------------
(* Properties of the audit, under SpecAudit *)

\* the characters of a text that are not whitespace, in order
NonWhitespace(s) == SelectSeq(s, LAMBDA c : c \notin Whitespace)

\* a title, or nothing for a volume without one
TitleText(t) == IF t = None THEN <<>> ELSE t

\* the titles and contents of a Document, concatenated in document order
RECURSIVE SectionCharacters(_)
SectionCharacters(ss) ==
    IF Len(ss) = 0 THEN <<>>
    ELSE ss[1].title \o ss[1].content \o SectionCharacters(Tail(ss))
RECURSIVE ChapterCharacters(_)
ChapterCharacters(chs) ==
    IF Len(chs) = 0 THEN <<>>
    ELSE chs[1].title \o chs[1].content \o SectionCharacters(chs[1].sections)
         \o ChapterCharacters(Tail(chs))
RECURSIVE DocumentCharacters(_)
DocumentCharacters(vols) ==
    IF Len(vols) = 0 THEN <<>>
    ELSE TitleText(vols[1].title) \o ChapterCharacters(vols[1].chapters)
         \o DocumentCharacters(Tail(vols))

\* the Document holds exactly the non-whitespace characters of the text
RoundTrip(text, vols) == NonWhitespace(DocumentCharacters(vols)) = NonWhitespace(text)

\* validate_conversion_integrity has returned or raised
AuditEnded == pc \in {"returned", "raised"}

\* C12: for every original text and every Document whose titles and contents,
\* concatenated in document order, hold exactly the non-whitespace characters
\* of the text, the audit reports a loss rate of 0 for CJK characters, for Latin
\* letters and digits and for all characters, and reports the conversion valid.
C12_RoundTripPasses ==
    (AuditEnded /\ RoundTrip(original_content, volumes))
    => /\ ~Raised(audit)
       /\ audit.is_valid
       /\ audit.report.table.loss_rates.chinese_chars.num = 0
       /\ audit.report.table.loss_rates.english_chars.num = 0
       /\ audit.report.table.loss_rates.total_chars.num = 0

\* the loss (o - c) / o, in percent, is at most the given percentage; a class
\* with no character in the original has lost nothing
LossWithin(o, c, percent) == o = 0 \/ (o - c) * 100 <= percent * o

\* the fraction is the loss rate of a class with o characters before and c after
IsLossRate(rate, o, c) ==
    IF o = 0 THEN rate.num = 0 ELSE rate.num * o = (o - c) * 100 * rate.den

\* C13: compare_content declares the conversion valid if and only if the CJK
\* loss rate is at most 1%, the Latin letters+digits loss rate at most 2% and the
\* total loss rate at most 1%, each rate being (original - converted)/original
\* in percent and 0 when the original count is 0; a converted count larger than
\* the original never makes the conversion invalid.
C13_ValidIffWithinThresholds ==
    pc = "compared" =>
        /\ audit.compared[1]
           <=> /\ LossWithin(original_stats.chinese_chars, converted_stats.chinese_chars, 1)
               /\ LossWithin(original_stats.english_chars, converted_stats.english_chars, 2)
               /\ LossWithin(original_stats.total_chars, converted_stats.total_chars, 1)
        /\ IsLossRate(audit.compared[2].loss_rates.chinese_chars,
                      original_stats.chinese_chars, converted_stats.chinese_chars)
        /\ IsLossRate(audit.compared[2].loss_rates.english_chars,
                      original_stats.english_chars, converted_stats.english_chars)
        /\ IsLossRate(audit.compared[2].loss_rates.total_chars,
                      original_stats.total_chars, converted_stats.total_chars)
        /\ (/\ converted_stats.chinese_chars >= original_stats.chinese_chars
            /\ converted_stats.english_chars >= original_stats.english_chars
            /\ converted_stats.total_chars >= original_stats.total_chars)
           => audit.compared[1]

\* a Latin loss of exactly 2% beside a CJK gain, declared valid
C13_Witness ==
    /\ pc = "compared"
    /\ original_stats.english_chars = AuditUnit \div 2
    /\ (original_stats.english_chars - converted_stats.english_chars) * 100
       = 2 * original_stats.english_chars
    /\ converted_stats.chinese_chars > original_stats.chinese_chars
    /\ original_stats.chinese_chars > 0
    /\ audit.compared[1]

\* C14: for every original text, the empty string and whitespace-only text
\* included, and every Document, validate_conversion_integrity returns a
\* (passed, report) pair and raises no exception.
C14_AuditNeverRaises ==
    AuditEnded => (~Raised(audit) /\ DOMAIN audit = {"is_valid", "report"})

-----------------------------------------------------------------------------
(* detect_language(content) called on its own *)

MaxWords == 4

\* pieces of text: ideographs, Chinese keywords, Latin letters, English
\* keywords in three spellings, a keyword inside a longer word, whitespace,
\* a digit
LanguageWords ==
    {<<"zhong">>, <<"di">>, <<"mu", "lu">>,
     <<"x">>, <<"x", "y", "z">>,
     <<"P", "a", "r", "t">>, <<"B", "O", "O", "K">>, <<"a", "p", "a", "r", "t">>,
     <<" ">>, <<"\n">>, <<"1">>}

RECURSIVE Concat(_)
Concat(ws) == IF Len(ws) = 0 THEN <<>> ELSE Head(ws) \o Concat(Tail(ws))

LanguageTexts ==
    {Concat(ws) : ws \in UNION {[1..n -> LanguageWords] : n \in 0..MaxWords}}

InitLanguage ==
    /\ pc = "start"
    /\ content \in LanguageTexts
    /\ language = <<>>
    /\ config = DefaultConfig
    /\ volumes = <<>>
    /\ chapter_list = <<>>
    /\ cleaned = <<>>
    /\ cleaned2 = <<>>
    /\ chapters = <<>>
    /\ min_length = 0
    /\ merged = <<>>
    /\ ValidationIdle /\ AuditIdle /\ RunIdle

DetectLanguage ==
    /\ pc = "start"
    /\ language' = detect_language(content)
    /\ pc' = "detected"
    /\ UNCHANGED <<content, config, volumes, chapter_list, cleaned, cleaned2, chapters,
                   min_length, merged>>
    /\ UNCHANGED <<validationVars, auditVars, runVars>>

NextLanguage == DetectLanguage

SpecLanguage == InitLanguage /\ [][NextLanguage]_vars

\* the characters of text in [一-鿿], and in [a-zA-Z]
Ideographs(text) == {i \in 1..Len(text) : text[i] \notin Ascii \cup CjkPunct}
LatinLetters(text) == {i \in 1..Len(text) : text[i] \in UpperSet \cup LowerSet}

\* keyword kw stands at offset p of text
OccursAt(text, p, kw) ==
    /\ p + Len(kw) <= Len(text)
    /\ \A k \in 1..Len(kw) : text[p + k] = kw[k]

\* the places of text where one of the keywords stands
Occurrences(text, kws) ==
    {<<p, k>> \in (0..Len(text)) \X (1..Len(kws)) : OccursAt(text, p, kws[k])}

OnlyWhitespace(text) == \A i \in 1..Len(text) : text[i] \in Whitespace

ChineseByCount(text) ==
    \/ 2 * Cardinality(Ideographs(text)) > Cardinality(LatinLetters(text))
    \/ Cardinality(Occurrences(text, chinese_keywords))
         > Cardinality(Occurrences(Lower(text), english_keywords))

\* C15: detect_language returns 'chinese' or 'english'; 'chinese' for empty or
\* whitespace-only text; for any other text 'chinese' exactly when the
\* ideographs outnumber half the Latin letters or the Chinese keywords
\* outnumber the English keywords (counted in any letter case)
C15_DetectLanguageRule ==
    pc = "detected" =>
        /\ language \in {"chinese", "english"}
        /\ OnlyWhitespace(content) => language = "chinese"
        /\ ~OnlyWhitespace(content) =>
               (language = "chinese" <=> ChineseByCount(content))

\* a text the keywords decide: too few ideographs, an English keyword not
\* spelled as in the list, and more Chinese keywords than English ones
C15_Witness ==
    /\ pc = "detected"
    /\ language = "chinese"
    /\ 2 * Cardinality(Ideographs(content)) <= Cardinality(LatinLetters(content))
    /\ Cardinality(Occurrences(Lower(content), english_keywords)) > 0
    /\ Cardinality(Occurrences(content, english_keywords)) = 0

-----------------------------------------------------------------------------
(* SpecPlain: parse_hierarchical_content on texts that are empty, blank or  *)
(* running prose, next to texts that hold a heading or a contents keyword.  *)

MaxPlainLines == 3

SpaceLine      == <<" ", " ">>
CnIndented     == <<" ", "wen", "wen", " ">>
EnShortProse   == <<"x", "x">>
EnIndented     == <<" ", "x", " ", "x", " ">>

\* lines that are no heading of any tier and no contents keyword
CnPlainLines == {CnBlank, SpaceLine, CnShortProse, CnProse, CnInlineRef, CnIndented}
EnPlainLines == {EnBlank, SpaceLine, EnShortProse, EnProse, EnInlineRef, EnIndented}

CnPlainMenu == CnPlainLines \cup {CnHeading1, CnTocWord}
EnPlainMenu == EnPlainLines \cup {EnHeading1}

PlainTexts == {JoinLines(ls) : ls \in LineLists(CnPlainMenu, MaxPlainLines)}
              \cup {JoinLines(ls) : ls \in LineLists(EnPlainMenu, MaxPlainLines)}

InitPlain ==
    /\ pc = "start"
    /\ content \in PlainTexts
    /\ config \in Configs
    /\ language = detect_language(content)
    /\ volumes = <<>>
    /\ chapter_list = <<>>
    /\ cleaned = <<>>
    /\ cleaned2 = <<>>
    /\ chapters = <<>>
    /\ min_length = 0
    /\ merged = <<>>
    /\ ValidationIdle /\ AuditIdle /\ RunIdle

ParsePlain ==
    /\ pc = "start"
    /\ volumes' = parse_hierarchical_content(content, config)
    /\ pc' = "parsed"
    /\ UNCHANGED <<content, language, config, chapter_list, cleaned, cleaned2, chapters,
                   min_length, merged>>
    /\ UNCHANGED <<validationVars, auditVars, runVars>>

NextPlain == ParsePlain

SpecPlain == InitPlain /\ [][NextPlain]_vars

\* C16: for empty or whitespace-only text parse_hierarchical_content returns
\* exactly one Volume without title, holding exactly one Chapter titled
\* "Empty Content" with the placeholder content and no sections
C16_EmptyTextPlaceholder ==
    (pc = "parsed" /\ OnlyWhitespace(content)) =>
        /\ Len(volumes) = 1
        /\ volumes[1].title = None
        /\ Len(volumes[1].chapters) = 1
        /\ volumes[1].chapters[1].title = S_EmptyContent
        /\ volumes[1].chapters[1].content = S_EmptyDocument
        /\ volumes[1].chapters[1].sections = <<>>

\* blank lines and lines of spaces, nothing else
C16_Witness ==
    /\ pc = "parsed"
    /\ content = JoinLines(<<CnBlank, SpaceLine, CnBlank>>)
    /\ volumes[1].chapters[1].title = S_EmptyContent

\* every line of the text is a plain line
HeadingFree(text) ==
    \A i \in 1..Len(SplitLines(text)) :
        SplitLines(text)[i] \in CnPlainLines \cup EnPlainLines

\* text without its leading and trailing whitespace
Trimmed(text) ==
    IF OnlyWhitespace(text) THEN <<>>
    ELSE SubSeq(text,
                CHOOSE i \in 1..Len(text) :
                    text[i] \notin Whitespace /\ \A k \in 1..(i - 1) : text[k] \in Whitespace,
                CHOOSE j \in 1..Len(text) :
                    text[j] \notin Whitespace /\ \A k \in (j + 1)..Len(text) : text[k] \in Whitespace)

-----------------------------------------------------------------------------
(* SpecValidation: parse_chapters_from_content up to the filter of its      *)
(* matches, one step for finditer and one for is_valid_chapter_title.       *)

MaxValidationLines == 4

\* zai (U+5728) ends a sentence that runs into the next line
CnZaiProse == <<"wen", "zai">>
EnOfProse  == <<"o", "f", " ", "x">>

CnValidationMenu == {CnBlank, CnHeading1, CnBareHead, CnShortProse, CnProseZhong, CnZaiProse}
EnValidationMenu == {EnBlank, EnHeading1, EnColonHead, EnShortProse, EnOfProse}

ValidationTexts ==
    {JoinLines(ls) : ls \in LineLists(CnValidationMenu, MaxValidationLines)}
    \cup {JoinLines(ls) : ls \in LineLists(EnValidationMenu, MaxValidationLines)}

InitValidation ==
    /\ pc = "start"
    /\ content \in ValidationTexts
    /\ config = DefaultConfig
    /\ language = detect_language(content)
    /\ volumes = <<>>
    /\ chapter_list = <<>>
    /\ cleaned = <<>>
    /\ cleaned2 = <<>>
    /\ chapters = <<>>
    /\ min_length = 0
    /\ merged = <<>>
    /\ ValidationIdle /\ AuditIdle /\ RunIdle

\* all_matches = list(chapter_pattern.finditer(content))
FindCandidates ==
    /\ pc = "start"
    /\ Strip(content) # <<>>
    /\ candidates' = finditer(ChapterPattern(language), content)
    /\ pc' = "matched"
    /\ UNCHANGED <<content, language, config, volumes, chapter_list, cleaned, cleaned2,
                   chapters, min_length, merged, verdicts>>
    /\ UNCHANGED <<auditVars, runVars>>

\* is_valid_chapter_title(match, content, language) for match in all_matches
ValidateCandidates ==
    /\ pc = "matched"
    /\ config.enable_chapter_validation
    /\ verdicts' = [i \in 1..Len(candidates) |->
                        is_valid_chapter_title(candidates[i], content, language)]
    /\ pc' = "validated"
    /\ UNCHANGED <<content, language, config, volumes, chapter_list, cleaned, cleaned2,
                   chapters, min_length, merged, candidates>>
    /\ UNCHANGED <<auditVars, runVars>>

NextValidation == FindCandidates \/ ValidateCandidates

SpecValidation == InitValidation /\ [][NextValidation]_vars

\* where the heading of a match begins: after the newline and the whitespace
\* the pattern lets a match start with
HeadingStart(match, text) == SkipWs(text, match.start)

\* only whitespace between the start of the heading's line and the heading
AloneOnLine(match, text) ==
    \A p \in LineStart(text, HeadingStart(match, text))..(HeadingStart(match, text) - 1) :
        IsSpace(At(text, p))

\* the text before the heading, joined to the heading, holds no inline
\* reference, and the text after the match does not continue a sentence
NoReferenceAround(match, text, lang) ==
    Bind3(Slice(text, 0, match.start), Strip(match.group0), Slice(text, match.end, Len(text)),
          LAMBDA before, heading, after :
        IF lang = "chinese"
        THEN /\ ~CnReferenceIn(CnInlinePrefix \cup CnInlinePunct, before \o heading)
             /\ At(after, SkipWs(after, 0)) \notin CnContinuation \cup {"cn_comma", ","}
        ELSE /\ ~EnReferenceIn(before \o heading)
             /\ ~EnContinuationAt(after))

\* the last line before the heading's line that is not blank exists: the
\* heading follows prose, directly or after blank lines
FollowsText(match, text) == Strip(Slice(text, 0, match.start)) # <<>>

\* C18: is_valid_chapter_title returns True for every chapter-pattern match
\* whose heading is alone on its line, whose matched text is at most 100
\* characters and whose surrounding text holds no inline-reference or
\* continuation pattern, also when the line before the heading, or before the
\* blank lines that precede it, is prose
C18_LineStartHeadingAccepted ==
    pc = "validated" =>
        \A i \in 1..Len(candidates) :
            (/\ AloneOnLine(candidates[i], content)
             /\ Len(Strip(candidates[i].group0)) <= 100
             /\ NoReferenceAround(candidates[i], content, language))
            => verdicts[i]

-----------------------------------------------------------------------------
(* txt_to_epub (src/tasks/txt-to-epub-core/core.py)                         *)

\* "This document is empty."
S_FileEmpty == <<"T", "h", "i", "s", " ", "d", "o", "c", "u", "m", "e", "n", "t", " ", "i", "s", " ", "e", "m", "p", "t", "y", ".">>
\* "This document content is empty or cannot be parsed."
S_ContentEmpty == <<"T", "h", "i", "s", " ", "d", "o", "c", "u", "m", "e", "n", "t", " ", "c", "o", "n", "t", "e", "n", "t", " ", "i", "s", " ", "e", "m", "p", "t", "y", " ", "o", "r", " ", "c", "a", "n", "n", "o", "t", " ", "b", "e", " ", "p", "a", "r", "s", "e", "d", ".">>

\* content = _read_txt_file(txt_file), replaced when it is empty or blank;
\* text is what the file holds
read_content(text) ==
    Bind(IF text = <<>> THEN S_FileEmpty ELSE text, LAMBDA read :
         IF Strip(read) = <<>> THEN S_ContentEmpty ELSE read)

\* parse_hierarchical_content(content, config, llm_assistant,
\* skip_toc_removal=True): the segmentation of a text whose table of contents
\* the caller has removed
parse_after_toc_removal(text, cfg) ==
    IF Strip(text) = <<>>
    THEN <<Volume(None, <<Chapter(S_EmptyContent, S_EmptyDocument, <<>>)>>)>>
    ELSE Bind(detect_language(text), LAMBDA lang :
         Bind(VolumesOf(text, lang, cfg), LAMBDA vols :
              IF Len(vols) = 0
              THEN <<Volume(None,
                            <<Chapter(IF lang = "chinese" THEN S_UnknownCn ELSE S_UnknownEn,
                                      IF lang = "chinese" THEN S_UnparsedCn ELSE S_UnparsedEn,
                                      <<>>)>>)>>
              ELSE vols))

\* sum(len(volume.chapters) for volume in volumes)
RECURSIVE total_chapters(_)
total_chapters(vols) ==
    IF Len(vols) = 0 THEN 0 ELSE Len(vols[1].chapters) + total_chapters(Tail(vols))

\* the four reports made before the chapter loop: 1, 2, 5 and 95
ReportsBeforePages == <<1, 2, 5, 95>>

\* processed_chapters: one report is made for each chapter processed
processed_chapters == Len(progress) - Len(ReportsBeforePages)

\* 5 + int((processed_chapters / total_chapters) * 90)
chapter_progress(processed, total) == 5 + ((processed * 90) \div total)

\* the exception raised when the returned result must be a passed audit
conversion_result_or_failure(outcome, vols) ==
    IF Raised(outcome) \/ ~outcome.is_valid THEN Raise("Exception")
    ELSE [success |-> TRUE,
          output_file |-> "epub_file",
          validation_passed |-> outcome.is_valid,
          validation_report |-> outcome.report,
          volumes_count |-> Len(vols),
          chapters_count |-> total_chapters(vols)]

\* what txt_to_epub returns, or raises ("EPUB conversion failed: ..."), after
\* validate_conversion_integrity returned or raised outcome
conversion_result(outcome, vols) ==
    IF Raised(outcome) THEN Raise("Exception")
    ELSE [success |-> TRUE,
          output_file |-> "epub_file",
          validation_passed |-> outcome.is_valid,
          validation_report |-> outcome.report,
          volumes_count |-> Len(vols),
          chapters_count |-> total_chapters(vols)]

MaxRunLines == 4

CnRunMenu == {CnBlank, CnTocWord, CnTocEntry, CnHeading1, CnLongProse}
EnRunMenu == {EnBlank, EnTocWord, EnTocEntry, EnHeading1, EnLongProse}

\* ParserConfig() and a configuration with both validations disabled
RunConfigs == {DefaultConfig,
               [enable_chapter_validation |-> FALSE,
                enable_length_validation |-> FALSE,
                min_chapter_length |-> SmallMinChapterLength]}

\* what the input file holds
RunTexts == {JoinLines(ls) : ls \in LineLists(CnRunMenu, MaxRunLines)}
            \cup {JoinLines(ls) : ls \in LineLists(EnRunMenu, MaxRunLines)}

InitRun ==
    /\ pc = "start"
    /\ file_text \in RunTexts
    /\ config \in RunConfigs
    /\ content = <<>>
    /\ language = <<>>
    /\ volumes = <<>>
    /\ chapter_list = <<>>
    /\ cleaned = <<>>
    /\ cleaned2 = <<>>
    /\ chapters = <<>>
    /\ min_length = 0
    /\ merged = <<>>
    /\ epub_file = <<>>
    /\ progress = <<>>
    /\ result = <<>>
    /\ ValidationIdle /\ AuditIdle

notRunVars == <<chapter_list, cleaned, cleaned2, chapters, min_length, merged, validationVars>>

\* report_progress(1); book = _create_epub_book(...); report_progress(2)
CreateBook ==
    /\ pc = "start"
    /\ progress' = <<1, 2>>
    /\ pc' = "created"
    /\ UNCHANGED <<file_text, content, language, config, volumes, epub_file, result>>
    /\ UNCHANGED <<auditVars, notRunVars>>

\* content = _read_txt_file(txt_file); the empty-content replacement;
\* report_progress(5)
ReadFile ==
    /\ pc = "created"
    /\ content' = read_content(file_text)
    /\ progress' = Append(progress, 5)
    /\ pc' = "read"
    /\ UNCHANGED <<file_text, language, config, volumes, epub_file, result>>
    /\ UNCHANGED <<auditVars, notRunVars>>

\* language = detect_language(content);
\* content = remove_table_of_contents(content, language, llm_assistant, config)
RemoveTOCOnce ==
    /\ pc = "read"
    /\ language' = detect_language(content)
    /\ content' = remove_table_of_contents(content, detect_language(content))
    /\ pc' = "prepared"
    /\ UNCHANGED <<file_text, config, volumes, epub_file, progress, result>>
    /\ UNCHANGED <<auditVars, notRunVars>>

\* volumes = parse_hierarchical_content(content, config, llm_assistant,
\* skip_toc_removal=True, context=context); report_progress(95)
ParseContent ==
    /\ pc = "prepared"
    /\ volumes' = parse_after_toc_removal(content, config)
    /\ progress' = Append(progress, 95)
    /\ pc' = "pages"
    /\ UNCHANGED <<file_text, content, language, config, epub_file, result>>
    /\ UNCHANGED <<auditVars, notRunVars>>

\* one pass of "for chapter in volume.chapters": the pages of the chapter are
\* added to the book and the progress is reported
AddChapterPages ==
    /\ pc = "pages"
    /\ processed_chapters < total_chapters(volumes)
    /\ progress' = Append(progress,
                          chapter_progress(processed_chapters + 1, total_chapters(volumes)))
    /\ UNCHANGED <<pc, file_text, content, language, config, volumes, epub_file, result>>
    /\ UNCHANGED <<auditVars, notRunVars>>

\* _write_epub_file(epub_file, book); report_progress(100)
WriteEpub ==
    /\ pc = "pages"
    /\ processed_chapters = total_chapters(volumes)
    /\ epub_file' = [book |-> volumes]
    /\ progress' = Append(progress, 100)
    /\ pc' = "written"
    /\ UNCHANGED <<file_text, content, language, config, volumes, result>>
    /\ UNCHANGED <<auditVars, notRunVars>>

\* is_valid, validation_report = validate_conversion_integrity(content, volumes)
AuditConversion ==
    /\ pc = "written"
    /\ original_content' = content
    /\ original_stats' = count_characters(content)
    /\ converted_stats' = count_characters(extract_content_from_volumes(volumes))
    /\ audit' = validate_conversion_integrity(content, volumes)
    /\ pc' = "audited"
    /\ UNCHANGED <<file_text, content, language, config, volumes, epub_file, progress,
                   result>>
    /\ UNCHANGED notRunVars

\* return {"success": True, ...}, or the except clause re-raising
FinishRun ==
    /\ pc = "audited"
    /\ result' = conversion_result(audit, volumes)
    /\ pc' = IF Raised(conversion_result(audit, volumes)) THEN "failed" ELSE "returned"
    /\ UNCHANGED <<file_text, content, language, config, volumes, epub_file, progress>>
    /\ UNCHANGED <<auditVars, notRunVars>>

NextRun ==
    \/ CreateBook
    \/ ReadFile
    \/ RemoveTOCOnce
    \/ ParseContent
    \/ AddChapterPages
    \/ WriteEpub
    \/ AuditConversion
    \/ FinishRun

SpecRun == InitRun /\ [][NextRun]_vars

\* the audit has been called
Audited == pc \in {"audited", "returned", "failed"}

\* C19: in every txt_to_epub run the text given to the integrity audit as the
\* original is the text as read from the input file, before the removal of
\* the table of contents, never the text without the table of contents
C19_AuditReceivesTextAsRead ==
    Audited => original_content = read_content(file_text)

\* the audit has reported that the conversion is not valid
AuditFailed == Audited /\ ~Raised(audit) /\ ~audit.is_valid

\* C20: when the integrity audit reports that the conversion is not valid,
\* txt_to_epub has already written the EPUB file, raises no exception because
\* of it, and returns success = True and validation_passed = False together
\* with the report
C20_AuditFailureNotFatal ==
    AuditFailed =>
        /\ epub_file = [book |-> volumes]
        /\ pc # "failed"
        /\ pc = "returned" =>
              /\ ~Raised(result)
              /\ result.success = TRUE
              /\ result.validation_passed = FALSE
              /\ result.validation_report = audit.report

\* a run that lost text, with the default configuration, after it returned
C20_Witness ==
    /\ pc = "returned"
    /\ AuditFailed
    /\ config = DefaultConfig
    /\ epub_file # <<>>
    /\ result.validation_passed = FALSE

-----------------------------------------------------------------------------
(* SpecPatterns: every heading pattern of the detected language is run over  *)
(* a text with finditer.                                                     *)

MaxPatternLines == 3

\* a volume, a section and a chapter marker after other text on the line
CnInlineVolume  == <<"wen", "di", "yi", "juan", " ", "wen">>
CnInlineSection == <<"wen", "di", "er", "jie", " ", "wen">>
EnVolumeHd      == <<"P", "a", "r", "t", " ", "I">>
EnSectionHd     == <<"S", "e", "c", "t", "i", "o", "n", " ", "1">>
EnNumberedHd    == <<"1", ".", "1", " ", "x">>
EnInlineVolume  == <<"x", " ", "P", "a", "r", "t", " ", "I">>
EnInlineSection == <<"x", " ", "S", "e", "c", "t", "i", "o", "n", " ", "1">>
EnInlineNumbered == <<"x", " ", "1", ".", "1", " ", "x">>

CnPatternMenu == {CnBlank, CnShortProse, CnVolumeHd, CnHeading1, CnSectionHd,
                  CnInlineVolume, CnInlineRef, CnInlineSection, CnIndented}
EnPatternMenu == {EnBlank, EnShortProse, EnVolumeHd, EnHeading1, EnSectionHd, EnNumberedHd,
                  EnInlineVolume, EnInlineRef, EnInlineSection, EnInlineNumbered}

PatternTexts == {JoinLines(ls) : ls \in LineLists(CnPatternMenu, MaxPatternLines)}
                \cup {JoinLines(ls) : ls \in LineLists(EnPatternMenu, MaxPatternLines)}

\* the volume, chapter and section patterns of a language
HeadingPatterns(lang) ==
    IF lang = "english" THEN {"en_volume", "en_chapter", "en_section", "en_numbered"}
    ELSE {"cn_volume", "cn_chapter", "cn_section"}

InitPatterns ==
    /\ pc = "start"
    /\ content \in PatternTexts
    /\ config = DefaultConfig
    /\ language = detect_language(content)
    /\ volumes = <<>>
    /\ chapter_list = <<>>
    /\ cleaned = <<>>
    /\ cleaned2 = <<>>
    /\ chapters = <<>>
    /\ min_length = 0
    /\ merged = <<>>
    /\ ValidationIdle /\ AuditIdle /\ RunIdle

\* list(pattern.finditer(content)) for each pattern of the language
FindHeadings ==
    /\ pc = "start"
    /\ candidates' = [pat \in HeadingPatterns(language) |-> finditer(pat, content)]
    /\ pc' = "headings matched"
    /\ UNCHANGED <<content, language, config, volumes, chapter_list, cleaned, cleaned2,
                   chapters, min_length, merged, verdicts>>
    /\ UNCHANGED <<auditVars, runVars>>

NextPatterns == FindHeadings

SpecPatterns == InitPatterns /\ [][NextPatterns]_vars

\* the match holds a heading that has its line to itself: nothing but
\* whitespace between the start of the line and the heading, and the match
\* ends where a line ends
OwnLine(match, text) ==
    /\ \A p \in LineStart(text, SkipWs(text, match.start))..(SkipWs(text, match.start) - 1) :
           IsSpace(At(text, p))
    /\ match.end = Len(text) \/ At(text, match.end) = "\n"

\* C21: every heading recognizer of both languages, at the volume, chapter and
\* section tier, matches only a heading that occupies its own line, so a
\* phrase such as di-yi-juan (U+7B2C U+4E00 U+5377) after other text on the
\* line is never matched
C21_HeadingsOnOwnLine ==
    pc = "headings matched" =>
        \A pat \in DOMAIN candidates : \A i \in 1..Len(candidates[pat]) :
            OwnLine(candidates[pat][i], content)

-----------------------------------------------------------------------------
(* SpecDuplicates: texts in which headings repeat.  Each line is a heading   *)
(* or a line of prose written with a character no other line uses, so that   *)
(* the text of a line can be looked for in the returned tree.                *)

MaxDuplicateLines == 4

\* jia, geng, bing, ding, xin (U+7532, U+5E9A, U+4E19, U+4E01, U+8F9B)
BodyCharacters == <<"jia", "geng", "bing", "ding", "xin">>

BodyLine(k) == <<BodyCharacters[k], BodyCharacters[k]>>

DuplicateHeadings == {CnVolumeHd, CnHeading1, CnHeading2, CnSectionHd}

\* the texts of n lines whose k-th line is a heading or the k-th prose line
NumberedTexts(n) ==
    {JoinLines(ls) : ls \in {f \in [1..n -> DuplicateHeadings \cup {BodyLine(k) : k \in 1..n}] :
                                 \A k \in 1..n : f[k] \in DuplicateHeadings \/ f[k] = BodyLine(k)}}

DuplicateTexts == UNION {NumberedTexts(n) : n \in 1..MaxDuplicateLines}

\* no merging of short chapters; the heading validator on or off
DuplicateConfigs == [enable_chapter_validation : BOOLEAN,
                     enable_length_validation : {FALSE},
                     min_chapter_length : {SmallMinChapterLength}]

InitDuplicates ==
    /\ pc = "start"
    /\ content \in DuplicateTexts
    /\ config \in DuplicateConfigs
    /\ language = detect_language(content)
    /\ volumes = <<>>
    /\ chapter_list = <<>>
    /\ cleaned = <<>>
    /\ cleaned2 = <<>>
    /\ chapters = <<>>
    /\ min_length = 0
    /\ merged = <<>>
    /\ ValidationIdle /\ AuditIdle /\ RunIdle

\* a caller parses the text as the chapters of one volume, or as a whole
NextDuplicates == ParseChapters \/ ParseHierarchical

SpecDuplicates == InitDuplicates /\ [][NextDuplicates]_vars

\* the characters of a str, as a set
Characters(s) == {s[i] : i \in 1..Len(s)}

RECURSIVE SectionsCharacters(_)
SectionsCharacters(ss) ==
    IF Len(ss) = 0 THEN {}
    ELSE Characters(ss[1].title) \cup Characters(ss[1].content)
         \cup SectionsCharacters(Tail(ss))

RECURSIVE ChaptersCharacters(_)
ChaptersCharacters(chs) ==
    IF Len(chs) = 0 THEN {}
    ELSE Characters(chs[1].title) \cup Characters(chs[1].content)
         \cup SectionsCharacters(chs[1].sections) \cup ChaptersCharacters(Tail(chs))

RECURSIVE VolumesCharacters(_)
VolumesCharacters(vols) ==
    IF Len(vols) = 0 THEN {}
    ELSE ChaptersCharacters(vols[1].chapters) \cup VolumesCharacters(Tail(vols))

\* the prose characters in the span of match i: from the match to the next
\* match of the list, or to the end of the text
SpanProse(text, ms, i) ==
    Characters(Slice(text, ms[i].start,
                     IF i < Len(ms) THEN ms[i + 1].start ELSE Len(text)))
    \cap Characters(BodyCharacters)

\* match i repeats the title of an earlier match of the list
Repeated(ms, i) == \E j \in 1..(i - 1) : Strip(ms[j].group1) = Strip(ms[i].group1)

\* how many entries of a list of records carry the title
TitleCount(xs, title) == Cardinality({k \in 1..Len(xs) : xs[k].title = title})

\* the chapter headings parse_chapters_from_content accepts
AcceptedChapters(text, lang, cfg) ==
    IF cfg.enable_chapter_validation
    THEN FilterValid(finditer(ChapterPattern(lang), text), text, lang)
    ELSE finditer(ChapterPattern(lang), text)

\* keep-first, discard-span for the matches ms of a text against the entries
\* xs built from them, whose characters are found
KeepFirst(text, ms, xs, found) ==
    \A i \in 1..Len(ms) :
        /\ TitleCount(xs, Strip(ms[i].group1)) = 1
        /\ Repeated(ms, i) => SpanProse(text, ms, i) \cap found = {}

\* the same for the section headings of the chapter made from match i
SectionsKeepFirst(text, lang, ms, i, chs) ==
    Bind2(StripNewlines(Slice(text, ms[i].end,
                              IF i < Len(ms) THEN ms[i + 1].start ELSE Len(text))),
          CHOOSE k \in 1..Len(chs) : chs[k].title = Strip(ms[i].group1),
          LAMBDA chapter_content, k :
          Bind(finditer("cn_section", chapter_content), LAMBDA section_matches :
               KeepFirst(chapter_content, section_matches, chs[k].sections,
                         SectionsCharacters(chs[k].sections))))

\* the later occurrences of a title make nothing and their spans are in no
\* chapter, at each of the three levels
LaterOccurrencesDiscarded ==
    /\ pc = "chapters" =>
          Bind(AcceptedChapters(content, language, config), LAMBDA ms :
               /\ KeepFirst(content, ms, chapter_list, ChaptersCharacters(chapter_list))
               /\ \A i \in 1..Len(ms) :
                     ~Repeated(ms, i) =>
                         SectionsKeepFirst(content, language, ms, i, chapter_list))
    /\ pc = "parsed" =>
          Bind(finditer(VolumePattern(language), content), LAMBDA ms :
               \A i \in 1..Len(ms) :
                   /\ TitleCount(volumes, Strip(ms[i].group1)) <= 1
                   /\ Repeated(ms, i) =>
                          SpanProse(content, ms, i) \cap VolumesCharacters(volumes) = {})

\* C22: of two accepted chapter headings with the same title only the first
\* produces a Chapter, and the second heading's span, up to the next accepted
\* heading, appears in no chapter of the output; the same keep-first,
\* discard-span rule holds for duplicate section titles within a chapter and
\* for duplicate volume titles: the first occurrence of a volume title
\* produces the one Volume of that title
C22_DuplicateSpanDiscarded ==
    /\ LaterOccurrencesDiscarded
    /\ pc = "parsed" =>
          Bind(finditer(VolumePattern(language), content), LAMBDA ms :
               KeepFirst(content, ms, volumes, VolumesCharacters(volumes)))

-----------------------------------------------------------------------------
(* Rejected candidates, over SpecChapters: what becomes of the line of a     *)
(* chapter-pattern match that is_valid_chapter_title turns down.             *)

\* the candidates of the text that the validator rejects
RejectedChapters(text, lang) ==
    SelectSeq(finditer(ChapterPattern(lang), text),
              LAMBDA m : ~is_valid_chapter_title(m, text, lang))

\* the accepted headings that stand before the place p of the text
AcceptedBefore(ms, p) == {j \in 1..Len(ms) : ms[j].start < p}

\* w is part of the content of the chapter or of one of its sections
InChapter(chapter, w) ==
    \/ Contains(chapter.content, w)
    \/ \E k \in 1..Len(chapter.sections) : Contains(chapter.sections[k].content, w)

\* the rejected candidate m is inside the chapter made from the accepted
\* heading before it, or inside the front matter when no heading is before it
StaysInEnclosing(m, ms, chs) ==
    Bind(AcceptedBefore(ms, m.start), LAMBDA before :
         IF before = {}
         THEN /\ Len(chs) > 0
              /\ chs[1].title \in {S_PrefaceCn, S_PrefaceEn}
              /\ InChapter(chs[1], Strip(m.group0))
         ELSE Bind(CHOOSE j \in before : \A k \in before : k <= j, LAMBDA j :
                   ~Repeated(ms, j) =>
                       \E c \in 1..Len(chs) :
                           /\ chs[c].title = Strip(ms[j].group1)
                           /\ InChapter(chs[c], Strip(m.group0))))

-----------------------------------------------------------------------------
(* SpecSections: one English chapter whose text mixes fixed-keyword section  *)
(* headings, dotted-numeric headings and prose.                              *)

MaxSectionLines == 4

EnSectionHd2 == <<"S", "e", "c", "t", "i", "o", "n", " ", "2">>

\* the dotted-numeric heading of line k: 1.1 x, 2.1 x, ...
DottedNumbers == <<"1", "2", "3", "4", "5", "6", "7", "8", "9">>
DottedLine(k) == <<DottedNumbers[k], ".", "1", " ", "x">>

\* the texts of a chapter heading and n lines after it
SectionTextsOf(n) ==
    {JoinLines(<<EnHeading1>> \o ls) :
        ls \in {f \in [1..n -> {EnShortProse, EnSectionHd, EnSectionHd2}
                                   \cup {DottedLine(k) : k \in 1..n}] :
                   \A k \in 1..n : f[k] \in {EnShortProse, EnSectionHd, EnSectionHd2}
                                   \/ f[k] = DottedLine(k)}}

SectionTexts == UNION {SectionTextsOf(n) : n \in 1..MaxSectionLines}

InitSections ==
    /\ pc = "start"
    /\ content \in SectionTexts
    /\ config = DefaultConfig
    /\ language = detect_language(content)
    /\ volumes = <<>>
    /\ chapter_list = <<>>
    /\ cleaned = <<>>
    /\ cleaned2 = <<>>
    /\ chapters = <<>>
    /\ min_length = 0
    /\ merged = <<>>
    /\ ValidationIdle /\ AuditIdle /\ RunIdle

NextSections == ParseChapters

SpecSections == InitSections /\ [][NextSections]_vars

\* chapter_content of the one chapter of the text
ChapterContentOf(text, lang) ==
    StripNewlines(Slice(text, finditer(ChapterPattern(lang), text)[1].end, Len(text)))

\* the section titles a pattern family finds in a text, and the title of the
\* section made for the text before the first heading
FamilyTitles(pat, text) ==
    {Strip(finditer(pat, text)[k].group1) : k \in 1..Len(finditer(pat, text))}
    \cup {S_ChapterPrefaceEn}

\* the dotted-numeric lines of a text
DottedLinesOf(text) ==
    {DottedLine(k) : k \in DOMAIN DottedNumbers} \cap
    {SplitLines(text)[k] : k \in 1..Len(SplitLines(text))}

\* the line is in the span of a section heading whose title was seen before
InRepeatedSpan(text, ms, line) ==
    \E i \in 1..Len(ms) :
        /\ Repeated(ms, i)
        /\ Contains(Slice(text, ms[i].start,
                          IF i < Len(ms) THEN ms[i + 1].start ELSE Len(text)), line)

-----------------------------------------------------------------------------
(* toc_start, over SpecTOC *)

\* the 0-based index of the first TOC keyword line of the lines, or -1
FirstKeywordLine(lines, lang) ==
    Bind({i \in 0..(Len(lines) - 1) : IsTocKeywordLine(lines[i + 1], lang)}, LAMBDA ks :
         IF ks = {} THEN -1 ELSE CHOOSE i \in ks : \A k \in ks : i <= k)

\* C25: toc_start is the first line, in document order, that equals a TOC
\* keyword; a later keyword line met during the scan for the end does not move
\* it, so a removed block begins at the first keyword line: the result is the
\* lines before that line followed by a tail of the lines after it
C25_BlockStartsAtFirstKeyword ==
    (pc = "cleaned" /\ cleaned # content) =>
        Bind2(SplitLines(content), FirstKeywordLine(SplitLines(content), language),
              LAMBDA lines, first :
              /\ TocScan(lines, language, 0, -1).toc_start = first
              /\ \E k \in (first + 1)..Len(lines) :
                     cleaned = JoinLines(CutLines(lines, first, k)))

-----------------------------------------------------------------------------
(* Titled volumes, over Spec *)

\* the titles of the volume matches, each at its first occurrence, in order
RECURSIVE FirstSeenTitles(_, _)
FirstSeenTitles(ms, seen) ==
    IF Len(ms) = 0 THEN <<>>
    ELSE Bind(Strip(ms[1].group1), LAMBDA volume_title :
         IF volume_title # <<>> /\ volume_title \notin seen
         THEN <<volume_title>> \o FirstSeenTitles(Tail(ms), seen \cup {volume_title})
         ELSE FirstSeenTitles(Tail(ms), seen))

\* the titles of the titled volumes of a tree, in order
RECURSIVE TitledVolumes(_)
TitledVolumes(vols) ==
    IF Len(vols) = 0 THEN <<>>
    ELSE (IF vols[1].title # None THEN <<vols[1].title>> ELSE <<>>)
         \o TitledVolumes(Tail(vols))

\* C26: for every volume-heading match whose title was not seen earlier the
\* returned tree has a Volume with that title, the titled Volumes standing in
\* the order of their headings, a heading with an empty or blank content span
\* included
C26_EveryVolumeHeadingMakesVolume ==
    (pc = "parsed" /\ Strip(content) # <<>>) =>
        TitledVolumes(volumes)
            = FirstSeenTitles(finditer(VolumePattern(language),
                                       remove_table_of_contents(content, language)), {})

-----------------------------------------------------------------------------
(* SpecMergeSections: validate_and_merge_chapters on lists in which a short  *)
(* chapter can have sections.  The content of a chapter and the content of   *)
(* a section are written with different characters.                          *)

MaxShortChapters == 3

\* geng (U+5E9A), nine times: a section at the threshold
CnLongSection == [k \in 1..SmallMinChapterLength |-> "geng"]

ShortSectionLists == {<<>>, <<Section(CnSectionHd, BodyLine(1))>>,
                      <<Section(CnSectionHd, CnLongSection)>>}

ShortChapterKinds == {Chapter(t, c, ss) : t \in {CnHeading1, CnHeading2},
                                          c \in {<<>>, CnShortProse, CnProse},
                                          ss \in ShortSectionLists}

InitMergeSections ==
    /\ pc = "start"
    /\ chapters \in UNION {[1..k -> ShortChapterKinds] : k \in 0..MaxShortChapters}
    /\ language = "chinese"
    /\ min_length = SmallMinChapterLength
    /\ content = <<>>
    /\ config = DefaultConfig
    /\ volumes = <<>>
    /\ chapter_list = <<>>
    /\ cleaned = <<>>
    /\ cleaned2 = <<>>
    /\ merged = <<>>
    /\ ValidationIdle /\ AuditIdle /\ RunIdle

NextMergeSections == Merge

SpecMergeSections == InitMergeSections /\ [][NextMergeSections]_vars

\* w occurs in the title, the content or a section of a chapter of the list
OccursIn(chs, w) ==
    \E k \in 1..Len(chs) :
        \/ Contains(chs[k].title, w)
        \/ Contains(chs[k].content, w)
        \/ \E s \in 1..Len(chs[k].sections) :
               \/ Contains(chs[k].sections[s].title, w)
               \/ Contains(chs[k].sections[s].content, w)

\* C27: validate_and_merge_chapters loses no text: the title and the content
\* of every input chapter and the content of each of its sections occur in
\* the title, content or sections of some chapter of the output, also when
\* the chapter judged too short has sections
C27_MergeLosesNoText ==
    pc = "merged" =>
        \A i \in 1..Len(chapters) :
            /\ OccursIn(merged, chapters[i].title)
            /\ OccursIn(merged, chapters[i].content)
            /\ \A s \in 1..Len(chapters[i].sections) :
                   OccursIn(merged, chapters[i].sections[s].content)

\* the chapters before the first chapter that is long enough
RECURSIVE LeadingShort(_, _)
LeadingShort(chs, minlen) ==
    IF Len(chs) = 0 \/ content_length(chs[1]) >= minlen THEN <<>>
    ELSE <<chs[1]>> \o LeadingShort(Tail(chs), minlen)

\* title, blank line and content of the first, then for each of the others a
\* blank line, its title and its content
RECURSIVE Accumulated(_)
Accumulated(chs) ==
    IF Len(chs) = 1 THEN chs[1].title \o <<"\n", "\n">> \o chs[1].content
    ELSE Accumulated(SubSeq(chs, 1, Len(chs) - 1))
         \o <<"\n", "\n">> \o chs[Len(chs)].title \o <<"\n">> \o chs[Len(chs)].content

\* C28: in the returned list every chapter other than the first has a total
\* content length (content and the content of the sections, stripped) of at
\* least min_length; a chapter under the threshold can only be the first, and
\* it is the chapter built from the short chapters that stand before the
\* first long chapter
C28_OnlyFirstMayBeShort ==
    pc = "merged" =>
        /\ \A k \in 2..Len(merged) : content_length(merged[k]) >= min_length
        /\ (Len(merged) > 0 /\ content_length(merged[1]) < min_length) =>
              Bind(LeadingShort(chapters, min_length), LAMBDA short :
                   /\ Len(short) > 0
                   /\ merged[1] = Chapter(short[1].title, Strip(Accumulated(short)), <<>>))

\* a short chapter without text, a long one and a short one: the first
\* chapter of the result is made of the short one and is still under the
\* threshold, the long one follows with the last one merged into it
C28_Witness ==
    /\ pc = "merged"
    /\ Len(chapters) = 3
    /\ Len(LeadingShort(chapters, min_length)) = 1
    /\ content_length(chapters[3]) < min_length
    /\ Len(merged) = 2
    /\ content_length(merged[1]) < min_length
    /\ merged[2] = Absorb(chapters[2], chapters[3])

-----------------------------------------------------------------------------
(* The split-and-stride parser of src/tasks/txt-to-epub/parser.py.  Its      *)
(* pattern catalog, detect_language and remove_table_of_contents are those   *)
(* of txt-to-epub-core; its three parsing functions work on the list that    *)
(* pattern.split returns, stepping over it by the number of groups.          *)

\* the number of capturing groups of a pattern
GroupCount(pat) ==
    IF pat \in {"cn_volume", "cn_chapter", "cn_section", "en_numbered"} THEN 2 ELSE 1

\* group(2) of a match: the numeral of a Chinese heading (None for a special
\* chapter keyword), the number of a dotted-numeric heading
Group2(pat, s, match) ==
    Bind(SkipWs(s, IF pat \in Anchored THEN Group1Start(s, match.start) ELSE match.start),
         LAMBDA a :
         IF pat = "en_numbered"
         THEN Slice(s, a, RunEnd(s, RunEnd(s, a, Digits) + 1, Digits))
         ELSE IF At(s, a) # "di" THEN None
         ELSE Slice(s, a + 1, IF At(s, a + 1) \in Digits
                              THEN RunEnd(s, a + 1, Digits)
                              ELSE RunEnd(s, a + 1, CnNumerals)))

\* pattern.split(s): the text between the matches with, after each piece but
\* the last, the groups of the match that ends it
RECURSIVE SplitFrom(_, _, _, _, _)
SplitFrom(pat, s, ms, i, pos) ==
    IF i > Len(ms) THEN <<Slice(s, pos, Len(s))>>
    ELSE <<Slice(s, pos, ms[i].start), ms[i].group1>>
         \o (IF GroupCount(pat) = 2 THEN <<Group2(pat, s, ms[i])>> ELSE <<>>)
         \o SplitFrom(pat, s, ms, i + 1, ms[i].end)

split(pat, s) == SplitFrom(pat, s, finditer(pat, s), 1, 0)

\* for i in range(i, len(sections_raw), step), seen being seen_titles
RECURSIVE legacy_section_loop(_, _, _, _, _)
legacy_section_loop(sections_raw, lang, step, i, seen) ==
    IF i >= Len(sections_raw) THEN <<>>
    ELSE Bind2(i + (step - 1), Strip(sections_raw[i + 1]),
               LAMBDA content_index, section_title :
         Bind(IF lang = "chinese" THEN S_EmptySectionCn ELSE S_EmptySectionEn,
              LAMBDA empty_content :
         IF (content_index < Len(sections_raw) \/ i + 1 < Len(sections_raw))
            /\ section_title # <<>> /\ section_title \notin seen
         THEN Bind(IF content_index < Len(sections_raw)
                   THEN StripNewlines(sections_raw[content_index + 1])
                   ELSE <<>>,
                   LAMBDA section_content :
                   <<Section(section_title,
                             IF Strip(section_content) = <<>> THEN empty_content
                             ELSE section_content)>>)
              \o legacy_section_loop(sections_raw, lang, step, i + step,
                                     seen \cup {section_title})
         ELSE legacy_section_loop(sections_raw, lang, step, i + step, seen)))

\* parse_sections_from_content of txt-to-epub
legacy_parse_sections_from_content(text, lang) ==
    IF Strip(text) = <<>> THEN <<>>
    ELSE Bind(SectionPatterns(lang), LAMBDA pats :
         Bind({k \in 1..Len(pats) : Len(split(pats[k], text)) > 1}, LAMBDA hit :
         IF hit = {} THEN <<>>
         ELSE Bind(pats[CHOOSE k \in hit : \A j \in hit : k <= j], LAMBDA active_pattern :
              Bind2(split(active_pattern, text),
                    IF lang = "english" /\ active_pattern = "en_numbered" THEN 3
                    ELSE IF lang = "english" THEN 2 ELSE 3,
                    LAMBDA sections_raw, step :
                    (IF Strip(sections_raw[1]) # <<>>
                     THEN <<Section(IF lang = "chinese" THEN S_ChapterPrefaceCn
                                    ELSE S_ChapterPrefaceEn,
                                    Strip(sections_raw[1]))>>
                     ELSE <<>>)
                    \o legacy_section_loop(sections_raw, lang, step, 1, {})))))

\* the Chapter built for a first-seen title
legacy_chapter(chapter_title, chapter_content, lang) ==
    Bind(legacy_parse_sections_from_content(chapter_content, lang), LAMBDA sections :
        IF Len(sections) > 0 THEN Chapter(chapter_title, <<>>, sections)
        ELSE IF Strip(chapter_content) = <<>>
             THEN Chapter(chapter_title,
                          IF lang = "chinese" THEN S_EmptyChapterCn ELSE S_EmptyChapterEn,
                          <<>>)
             ELSE Chapter(chapter_title, chapter_content, <<>>))

\* while i < len(chapters_raw): ...; i += step
RECURSIVE legacy_chapter_loop(_, _, _, _, _)
legacy_chapter_loop(chapters_raw, lang, step, i, seen) ==
    IF i >= Len(chapters_raw) THEN <<>>
    ELSE Bind2(i + (step - 1),
               IF chapters_raw[i + 1] # None THEN Strip(chapters_raw[i + 1]) ELSE <<>>,
               LAMBDA content_index, chapter_title :
         IF chapter_title # <<>> /\ chapter_title \notin seen
         THEN <<legacy_chapter(chapter_title,
                               IF content_index < Len(chapters_raw)
                               THEN StripNewlines(chapters_raw[content_index + 1])
                               ELSE <<>>,
                               lang)>>
              \o legacy_chapter_loop(chapters_raw, lang, step, i + step,
                                     seen \cup {chapter_title})
         ELSE legacy_chapter_loop(chapters_raw, lang, step, i + step, seen))

\* parse_chapters_from_content of txt-to-epub
legacy_parse_chapters_from_content(text, lang) ==
    IF Strip(text) = <<>> THEN <<>>
    ELSE Bind(split(ChapterPattern(lang), text), LAMBDA chapters_raw :
         IF Len(chapters_raw) = 1 THEN <<>>
         ELSE Bind(IF lang = "chinese" THEN S_PrefaceCn ELSE S_PrefaceEn,
                   LAMBDA preface_title :
              (IF Strip(chapters_raw[1]) # <<>>
               THEN Bind(legacy_parse_sections_from_content(chapters_raw[1], lang),
                         LAMBDA sections :
                         IF Len(sections) > 0
                         THEN <<Chapter(preface_title, <<>>, sections)>>
                         ELSE <<Chapter(preface_title, Strip(chapters_raw[1]), <<>>)>>)
               ELSE <<>>)
              \o legacy_chapter_loop(chapters_raw, lang,
                                     IF lang = "chinese" THEN 3 ELSE 2, 1, {})))

\* for i in range(i, len(volume_parts), step), seen being seen_volume_titles
RECURSIVE legacy_volume_loop(_, _, _, _, _)
legacy_volume_loop(volume_parts, lang, step, i, seen) ==
    IF i >= Len(volume_parts) THEN <<>>
    ELSE Bind2(i + (step - 1),
               IF volume_parts[i + 1] # None THEN Strip(volume_parts[i + 1]) ELSE <<>>,
               LAMBDA content_index, volume_title :
         IF content_index < Len(volume_parts)
            /\ volume_title # <<>> /\ volume_title \notin seen
         THEN Bind(volume_parts[content_index + 1], LAMBDA volume_content :
              Bind(legacy_parse_chapters_from_content(volume_content, lang), LAMBDA chs :
                   IF Len(chs) > 0 THEN <<Volume(volume_title, chs)>>
                   ELSE IF Strip(volume_content) # <<>>
                   THEN <<Volume(volume_title,
                                 <<Chapter(IF lang = "chinese" THEN S_BodyCn ELSE S_BodyEn,
                                           Strip(volume_content), <<>>)>>)>>
                   ELSE <<>>))
              \o legacy_volume_loop(volume_parts, lang, step, i + step,
                                    seen \cup {volume_title})
         ELSE legacy_volume_loop(volume_parts, lang, step, i + step, seen))

\* the volumes built from the text once the table of contents is removed
legacy_volumes_of(text, lang) ==
    Bind(split(VolumePattern(lang), text), LAMBDA volume_parts :
        IF Len(volume_parts) = 1
        THEN Bind(legacy_parse_chapters_from_content(volume_parts[1], lang), LAMBDA chs :
                  IF Len(chs) > 0 THEN <<Volume(None, chs)>>
                  ELSE <<Volume(None,
                                <<Chapter(IF lang = "chinese" THEN S_BodyCn ELSE S_BodyEn,
                                          Strip(volume_parts[1]), <<>>)>>)>>)
        ELSE (IF Strip(volume_parts[1]) # <<>>
              THEN Bind(legacy_parse_chapters_from_content(volume_parts[1], lang),
                        LAMBDA pre_chapters :
                        IF Len(pre_chapters) > 0 THEN <<Volume(None, pre_chapters)>>
                        ELSE <<Volume(None,
                                      <<Chapter(IF lang = "chinese"
                                                THEN S_VolumePrefaceCn ELSE S_PrefaceEn,
                                                Strip(volume_parts[1]), <<>>)>>)>>)
              ELSE <<>>)
             \o legacy_volume_loop(volume_parts, lang,
                                   IF lang = "chinese" THEN 3 ELSE 2, 1, {}))

\* parse_hierarchical_content of txt-to-epub
legacy_parse_hierarchical_content(text) ==
    IF Strip(text) = <<>>
    THEN <<Volume(None, <<Chapter(S_EmptyContent, S_EmptyDocument, <<>>)>>)>>
    ELSE Bind(detect_language(text), LAMBDA lang :
         Bind(legacy_volumes_of(remove_table_of_contents(text, lang), lang), LAMBDA vols :
              IF Len(vols) = 0
              THEN <<Volume(None,
                            <<Chapter(IF lang = "chinese" THEN S_UnknownCn ELSE S_UnknownEn,
                                      IF lang = "chinese" THEN S_UnparsedCn ELSE S_UnparsedEn,
                                      <<>>)>>)>>
              ELSE vols))

-----------------------------------------------------------------------------
(* SpecLegacy: the same texts given to both parsers, with the heading        *)
(* validator and the merging of short chapters switched off.                 *)

MaxLegacyLines == 3

\* a section heading without a title: 第一节 and a space
CnBareSection == <<"di", "yi", "jie", " ">>

CnLegacyMenu == {CnBlank, CnHeading1, CnShortProse, CnSectionHd, CnBareSection, CnVolumeHd}
EnLegacyMenu == {EnBlank, EnHeading1, EnShortProse, EnSectionHd, EnNumberedHd, EnVolumeHd}

LegacyConfig == [enable_chapter_validation |-> FALSE,
                 enable_length_validation |-> FALSE,
                 min_chapter_length |-> SmallMinChapterLength]

InitLegacy ==
    /\ pc = "start"
    /\ content \in {JoinLines(ls) : ls \in LineLists(CnLegacyMenu, MaxLegacyLines)}
                   \cup {JoinLines(ls) : ls \in LineLists(EnLegacyMenu, MaxLegacyLines)}
    /\ config = LegacyConfig
    /\ language = detect_language(content)
    /\ volumes = <<>>
    /\ chapter_list = <<>>
    /\ cleaned = <<>>
    /\ cleaned2 = <<>>
    /\ chapters = <<>>
    /\ min_length = 0
    /\ merged = <<>>
    /\ ValidationIdle /\ AuditIdle /\ RunIdle

NextLegacy == ParseHierarchical

SpecLegacy == InitLegacy /\ [][NextLegacy]_vars

\* the same titles in the same order, the contents equal once stripped
SameSections(ss, ts) ==
    /\ Len(ss) = Len(ts)
    /\ \A k \in 1..Len(ss) : /\ ss[k].title = ts[k].title
                             /\ Strip(ss[k].content) = Strip(ts[k].content)

SameChapters(chs, dhs) ==
    /\ Len(chs) = Len(dhs)
    /\ \A k \in 1..Len(chs) : /\ chs[k].title = dhs[k].title
                              /\ Strip(chs[k].content) = Strip(dhs[k].content)
                              /\ SameSections(chs[k].sections, dhs[k].sections)

SameTree(vols, wols) ==
    /\ Len(vols) = Len(wols)
    /\ \A k \in 1..Len(vols) : /\ vols[k].title = wols[k].title
                               /\ SameChapters(vols[k].chapters, wols[k].chapters)

\* C29: with enable_chapter_validation and enable_length_validation both
\* False, parse_hierarchical_content of txt-to-epub-core returns for every
\* text the tree that parse_hierarchical_content of txt-to-epub returns: the
\* same volumes, chapters and sections in the same order with the same
\* titles, and contents equal up to leading and trailing whitespace
C29_SameTreeAsLegacy ==
    pc = "parsed" => SameTree(volumes, legacy_parse_hierarchical_content(content))

-----------------------------------------------------------------------------
(* Progress reports, over SpecRun *)

\* C30: in a successful run of txt_to_epub with a progress context the values
\* passed to context.report_progress never decrease, stay within 0..100 and
\* end with 100
C30_ProgressMonotonic ==
    pc = "returned" =>
        /\ \A k \in 1..Len(progress) : progress[k] \in 0..100
        /\ \A k \in 1..(Len(progress) - 1) : progress[k] <= progress[k + 1]
        /\ Len(progress) > 0 /\ progress[Len(progress)] = 100

=============================================================================
